---- MODULE Spec2Model ----
(***************************************************************************)
(* A model of the tskctl task engine: the Task data model and its          *)
(* invariant (engine/model.py), the parser (engine/parse.py), the writer   *)
(* and the creation operation (engine/ops.py) and the three mutation       *)
(* actions (engine/actions.py).                                            *)
(*                                                                         *)
(* Text is modelled as a sequence of symbols.  A symbol is one character   *)
(* (" ", "\n", ":", "_", a letter, a digit) or an indivisible run of       *)
(* non-whitespace characters written as one token (an ISO date such as     *)
(* "2024-01-01", a status word such as "active").  The string operations   *)
(* of the code (strip, rstrip, lower, split, join, splitlines) are defined *)
(* on these sequences as Python defines them on strings.                   *)
(*                                                                         *)
(* The YAML library is not code of the repository: a metadata file is      *)
(* modelled as the mapping that yaml.safe_dump wrote and yaml.safe_load    *)
(* returns.  What the repository does to build that mapping and to read it *)
(* back (status words, ISO dates, link normalisation, the format number)   *)
(* is modelled step by step.                                               *)
(***************************************************************************)
EXTENDS Integers, Sequences, FiniteSets, TLC

VARIABLES
    today,      \* the date the "today" source returns (date.today())
    store,      \* the .tasks directory: directory name -> its files
    cur,        \* the task directory the operations are applied to
    task,       \* the Task object held by the caller, or NoTask
    result,     \* the last call: operation, exception raised, message
    prompts,    \* input() calls made by the last call
    failed,     \* an action has raised on the Task object now held
    request,    \* the NewTaskRequest of the last create_task, or NoReq
    snap,       \* Task objects returned by earlier parse_task calls
    writes,     \* write_task calls made directly by the caller
    call,       \* what the caller supplied to the last action (history)
    tree,       \* the directory tree a scan walks: path -> entry
    ret,        \* what the last scan or validation call returned
    pc,         \* the position of each process that runs a command
    mem         \* the Task object each process holds, before and after its action

vars == <<today, store, cur, task, result, prompts, failed, request, snap, writes, call, tree, ret, pc, mem>>

(***************************************************************************)
(* Bounds                                                                  *)
(***************************************************************************)
MaxDay == 2
MaxLog == 3
MaxWrites == 2

Days == 1..MaxDay

(***************************************************************************)
(* Text                                                                    *)
(***************************************************************************)
WS == {" ", "\n"}

None == <<"<None>">>

EOF == <<"<EOF>">>

RECURSIVE lstrip(_)
lstrip(s) ==
    IF s = <<>> THEN s
    ELSE IF Head(s) \in WS THEN lstrip(Tail(s)) ELSE s

RECURSIVE rstrip(_)
rstrip(s) ==
    IF s = <<>> THEN s
    ELSE IF s[Len(s)] \in WS THEN rstrip(SubSeq(s, 1, Len(s) - 1)) ELSE s

strip(s) == lstrip(rstrip(s))

IsoDates == <<"2024-01-01", "2024-01-02", "2024-01-03", "2024-01-04">>

isoformat(d) == <<IsoDates[d]>>

IsIsoDate(s) == \E d \in DOMAIN IsoDates : s = <<IsoDates[d]>>

fromisoformat(s) == CHOOSE d \in DOMAIN IsoDates : s = <<IsoDates[d]>>

(***************************************************************************)
(* Status and Task (engine/model.py)                                       *)
(***************************************************************************)
ACTIVE == "active"
WAITING == "waiting"
PAUSED == "paused"
DONE == "done"

Status == {ACTIVE, WAITING, PAUSED, DONE}

NoTask == [none |-> TRUE]
NoReq == [none |-> TRUE]

NoExc == "none"
Returned == [exc |-> NoExc, msg |-> <<>>]
Ok(v) == [exc |-> NoExc, msg |-> <<>>, value |-> v]
Raise(kind, msg) == [exc |-> kind, msg |-> msg]

Missing == <<"<missing>">>
NoArgs == [status |-> None, message |-> Missing, next_action |-> Missing]

NoCall == [op |-> "none", exc |-> NoExc, msg |-> <<>>]
Call(op, r) == [op |-> op, exc |-> r.exc, msg |-> r.msg]

Task(task_id, title, status, created, last_touch, next_action, summary, log_lines, links, format_version) ==
    [task_id |-> task_id, title |-> title, status |-> status,
     created |-> created, last_touch |-> last_touch,
     next_action |-> next_action, summary |-> summary,
     log_lines |-> log_lines, links |-> links,
     format_version |-> format_version]

validate_untrimmed(t) ==
    IF t.task_id = <<>> \/ strip(t.task_id) = <<>>
    THEN Raise("ValueError", <<"task_id must be a non-empty string">>)
    ELSE IF t.title = <<>> \/ strip(t.title) = <<>>
    THEN Raise("ValueError", <<"title must be a non-empty string">>)
    ELSE IF t.created > t.last_touch
    THEN Raise("ValueError", <<"created must be <= last_touch">>)
    ELSE LET na == t.next_action IN
         IF t.status = DONE
         THEN IF na # <<>>
              THEN Raise("ValueError", <<"next_action must be empty when status is 'done'">>)
              ELSE Returned
         ELSE IF na = <<>>
              THEN Raise("ValueError", <<"next_action must be non-empty unless status is 'done'">>)
              ELSE Returned

validate(t) ==
    IF t.task_id = <<>> \/ strip(t.task_id) = <<>>
    THEN Raise("ValueError", <<"task_id must be a non-empty string">>)
    ELSE IF t.title = <<>> \/ strip(t.title) = <<>>
    THEN Raise("ValueError", <<"title must be a non-empty string">>)
    ELSE IF t.created > t.last_touch
    THEN Raise("ValueError", <<"created must be <= last_touch">>)
    ELSE LET na == strip(t.next_action) IN
         IF t.status = DONE
         THEN IF na # <<>>
              THEN Raise("ValueError", <<"next_action must be empty when status is 'done'">>)
              ELSE Returned
         ELSE IF na = <<>>
              THEN Raise("ValueError", <<"next_action must be non-empty unless status is 'done'">>)
              ELSE Returned

(***************************************************************************)
(* More text operations                                                    *)
(***************************************************************************)
lower_sym(c) ==
    CASE c = "A" -> "a"
      [] c = "F" -> "f"
      [] c = "U" -> "u"
      [] c = "Done" -> "done"
      [] c = "File" -> "file"
      [] c = "D" -> "d"
      [] c = "O" -> "o"
      [] c = "N" -> "n"
      [] c = "E" -> "e"
      [] OTHER -> c

lower(s) == [i \in 1..Len(s) |-> lower_sym(s[i])]

\* index of the first occurrence of symbol c in s, 0 when there is none
find(s, c) ==
    IF \E i \in 1..Len(s) : s[i] = c
    THEN CHOOSE i \in 1..Len(s) : s[i] = c /\ \A j \in 1..(i - 1) : s[j] # c
    ELSE 0

RECURSIVE splitlines(_)
splitlines(s) ==
    IF s = <<>> THEN <<>>
    ELSE LET i == find(s, "\n") IN
         IF i = 0 THEN <<s>>
         ELSE <<SubSeq(s, 1, i - 1)>> \o splitlines(SubSeq(s, i + 1, Len(s)))

RECURSIVE join(_, _)
join(sep, lines) ==
    IF lines = <<>> THEN <<>>
    ELSE IF Len(lines) = 1 THEN lines[1]
    ELSE lines[1] \o sep \o join(sep, Tail(lines))

\* s.split()[0] for a string that is not blank: the first run of
\* non-whitespace symbols
first_word(s) ==
    LET t == lstrip(s)
        ws == {i \in 1..Len(t) : t[i] \in WS}
    IN  IF ws = {} THEN t
        ELSE SubSeq(t, 1, (CHOOSE i \in ws : \A j \in ws : i <= j) - 1)

\* [ln for ln in lines if ln.strip()]
RECURSIVE non_blank(_)
non_blank(lines) ==
    IF lines = <<>> THEN <<>>
    ELSE IF strip(Head(lines)) # <<>>
         THEN <<Head(lines)>> \o non_blank(Tail(lines))
         ELSE non_blank(Tail(lines))

(***************************************************************************)
(* The file system: the .tasks store and the task directories in it.       *)
(* A file is absent or holds data; a metadata file holds a YAML value.     *)
(***************************************************************************)
NoFile == [exists |-> FALSE]
File(data) == [exists |-> TRUE, data |-> data]

Y_missing == [t |-> "missing"]
Y_str(s) == [t |-> "str", v |-> s]
Y_int(n) == [t |-> "int", n |-> n]
Y_list(items) == [t |-> "list", v |-> items]
Y_link(kind, value) == [t |-> "map", kind |-> kind, value |-> value]
Y_map(id, title, status, created, last_touch, next_action, format, links) ==
    [t |-> "map", id |-> id, title |-> title, status |-> status,
     created |-> created, last_touch |-> last_touch,
     next_action |-> next_action, format |-> format, links |-> links]

TaskDir(yml, log, summary) ==
    [kind |-> "dir", yml |-> yml, log |-> log, summary |-> summary]

\* an entry of the store that is not a directory
PlainFile == [kind |-> "file"]

NoStore == [exists |-> FALSE, entries |-> <<>>]
StoreOf(entries) == [exists |-> TRUE, entries |-> entries]

is_dir(fs, name) ==
    /\ fs.exists
    /\ name \in DOMAIN fs.entries
    /\ fs.entries[name].kind = "dir"

put(fs, name, entry) ==
    [exists |-> TRUE,
     entries |-> [n \in DOMAIN fs.entries \cup {name} |->
                    IF n = name THEN entry ELSE fs.entries[n]]]

Link(kind, value) == [kind |-> kind, value |-> value]

(***************************************************************************)
(* The writer (engine/ops.py)                                              *)
(***************************************************************************)
render_task_yml(task_id, title, status, created_s, last_touch_s, next_action, links, format_version) ==
    Y_map(Y_str(task_id), Y_str(title), Y_str(<<status>>), Y_str(created_s),
          Y_str(last_touch_s), Y_str(next_action), Y_int(format_version),
          Y_list([i \in 1..Len(links) |->
                    Y_link(Y_str(links[i].kind), Y_str(links[i].value))]))

\* ops.py line 223
log_text(log_lines) ==
    LET kept == non_blank(log_lines) IN
    rstrip(join(<<"\n">>, [i \in 1..Len(kept) |-> rstrip(kept[i])])) \o <<"\n">>

write_summary_keep(old, summary) ==
    IF rstrip(summary) # <<>> THEN File(rstrip(summary) \o <<"\n">>)
    ELSE old

write_summary_append(old, summary) ==
    IF rstrip(summary) # <<>>
    THEN File((IF old.exists THEN old.data ELSE <<>>) \o rstrip(summary) \o <<"\n">>)
    ELSE NoFile

\* ops.py lines 226-233: the summary.md file after write_task
write_summary(old, summary) ==
    IF rstrip(summary) # <<>> THEN File(rstrip(summary) \o <<"\n">>)
    ELSE NoFile

\* write_task(task_dir, task): the file system afterwards and the outcome
write_task(fs, d, t) ==
    IF ~is_dir(fs, d)
    THEN [fs |-> fs, out |-> Raise("FileNotFoundError", <<"Task directory not found">>)]
    ELSE LET old == fs.entries[d]
             yml == File(render_task_yml(t.task_id, t.title, t.status,
                         isoformat(t.created), isoformat(t.last_touch),
                         t.next_action, t.links, 2))
             log == File(log_text(t.log_lines))
         IN  [fs |-> put(fs, d, TaskDir(yml, log, write_summary(old.summary, t.summary))),
              out |-> Returned]

(***************************************************************************)
(* Creation (engine/ops.py)                                                *)
(***************************************************************************)
Digits == <<"0", "1", "2", "3", "4", "5", "6", "7", "8", "9">>

\* the characters [a-z0-9_] of the model's alphabet
SlugSafe ==
    {"a", "f", "i", "k", "m", "n", "o", "s", "t", "u", "x", "_"}
        \cup {Digits[i] : i \in DOMAIN Digits}

\* runs of "_" collapsed to one "_"
RECURSIVE collapse(_)
collapse(s) ==
    IF Len(s) < 2 THEN s
    ELSE IF s[1] = "_" /\ s[2] = "_" THEN collapse(Tail(s))
    ELSE <<s[1]>> \o collapse(Tail(s))

RECURSIVE strip_underscores(_)
strip_underscores(s) ==
    IF s = <<>> THEN s
    ELSE IF Head(s) = "_" THEN strip_underscores(Tail(s))
    ELSE IF s[Len(s)] = "_" THEN strip_underscores(SubSeq(s, 1, Len(s) - 1))
    ELSE s

slugify(title) ==
    LET l == lower(strip(title))
        u == [i \in 1..Len(l) |-> IF l[i] \in SlugSafe THEN l[i] ELSE "_"]
        r == strip_underscores(collapse(u))
    IN  IF r = <<>> THEN <<"t", "a", "s", "k">> ELSE r

\* str(n) for n >= 0
RECURSIVE decimal(_)
decimal(n) ==
    IF n < 10 THEN <<Digits[n + 1]>>
    ELSE decimal(n \div 10) \o <<Digits[(n % 10) + 1]>>

pad3_three_digits(seq) ==
    <<Digits[((seq \div 100) % 10) + 1], Digits[((seq \div 10) % 10) + 1],
      Digits[(seq % 10) + 1]>>

\* f"{seq:03d}": at least three digits, zero-padded
pad3(seq) ==
    LET d == decimal(seq) IN
    IF Len(d) >= 3 THEN d
    ELSE [i \in 1..(3 - Len(d)) |-> "0"] \o d

task_id_of(created, seq, slug) ==
    isoformat(created) \o <<"_", "_">> \o pad3(seq) \o <<"_", "_">> \o slug

IsDigit(c) == \E i \in DOMAIN Digits : Digits[i] = c

DigitValue(c) == (CHOOSE i \in DOMAIN Digits : Digits[i] = c) - 1

\* the digits of an int() literal: decimal digits, with single underscores
\* allowed between digits
IsDigits(s) ==
    /\ s # <<>>
    /\ IsDigit(s[1])
    /\ IsDigit(s[Len(s)])
    /\ \A i \in 1..Len(s) :
          \/ IsDigit(s[i])
          \/ s[i] = "_" /\ i > 1 /\ s[i - 1] # "_"

\* an int() literal without its sign
unsigned(s) ==
    IF s # <<>> /\ Head(s) \in {"+", "-"} THEN Tail(s) ELSE s

RECURSIVE nat_of(_)
nat_of(s) ==
    IF s = <<>> THEN 0
    ELSE IF s[Len(s)] = "_" THEN nat_of(SubSeq(s, 1, Len(s) - 1))
    ELSE 10 * nat_of(SubSeq(s, 1, Len(s) - 1)) + DigitValue(s[Len(s)])

\* int(text) raises ValueError unless IsNumeric(text): surrounding
\* whitespace, an optional sign, then digits
IsNumeric(s) == IsDigits(unsigned(strip(s)))

int_of(s) ==
    LET t == strip(s) IN
    IF Head(t) = "-" THEN 0 - nat_of(unsigned(t)) ELSE nat_of(unsigned(t))

\* name.split("__", 2)[1] for a name that starts with "<date>__"
second_segment(name) ==
    LET rest == SubSeq(name, 4, Len(name))
        cuts == {i \in 1..(Len(rest) - 1) : rest[i] = "_" /\ rest[i + 1] = "_"}
    IN  IF cuts = {} THEN rest
        ELSE SubSeq(rest, 1, (CHOOSE i \in cuts : \A j \in cuts : i <= j) - 1)

Max(S) == CHOOSE x \in S : \A y \in S : y <= x

next_task_seq_any_kind(fs, created) ==
    IF ~fs.exists THEN 1
    ELSE LET prefix == isoformat(created) \o <<"_", "_">>
             found == {int_of(second_segment(n)) :
                         n \in {m \in DOMAIN fs.entries :
                                  /\ Len(m) >= 3
                                  /\ SubSeq(m, 1, 3) = prefix
                                  /\ IsNumeric(second_segment(m))}}
         IN  Max(found \cup {0}) + 1

next_task_seq(fs, created) ==
    IF ~fs.exists THEN 1
    ELSE LET prefix == isoformat(created) \o <<"_", "_">>
             found == {int_of(second_segment(n)) :
                         n \in {m \in DOMAIN fs.entries :
                                  /\ fs.entries[m].kind = "dir"
                                  /\ Len(m) >= 3
                                  /\ SubSeq(m, 1, 3) = prefix
                                  /\ IsNumeric(second_segment(m))}}
         IN  Max(found \cup {0}) + 1

\* ensure_tasks_dir(cwd, interactive): `answer` is what input() returns
ensure_tasks_dir(fs, interactive, answer) ==
    IF fs.exists THEN [fs |-> fs, out |-> Returned]
    ELSE IF ~interactive THEN [fs |-> StoreOf(<<>>), out |-> Returned]
    ELSE IF answer = EOF THEN [fs |-> fs, out |-> Raise("EOFError", <<>>)]
    ELSE IF lower(strip(answer)) \in {<<>>, <<"y">>, <<"y", "e", "s">>}
    THEN [fs |-> StoreOf(<<>>), out |-> Returned]
    ELSE [fs |-> fs, out |-> Raise("RuntimeError", <<"Aborted (no .tasks created)">>)]

normalise_link_keep_case(s) ==
    LET l == IF find(first_word(s), ":") # 0
             THEN LET i == find(s, ":") IN
                  Link(strip(SubSeq(s, 1, i - 1)),
                       strip(SubSeq(s, i + 1, Len(s))))
             ELSE Link(<<"file">>, s)
    IN  IF l.kind = <<>> THEN Link(<<"file">>, l.value) ELSE l

\* one entry of _normalise_links (ops.py lines 275-286)
normalise_link(s) ==
    LET l == IF find(first_word(s), ":") # 0
             THEN LET i == find(s, ":") IN
                  Link(lower(strip(SubSeq(s, 1, i - 1))),
                       strip(SubSeq(s, i + 1, Len(s))))
             ELSE Link(<<"file">>, s)
    IN  IF l.kind = <<>> THEN Link(<<"file">>, l.value) ELSE l

RECURSIVE normalise_links(_)
normalise_links(raw_links) ==
    IF raw_links = <<>> THEN <<>>
    ELSE IF strip(Head(raw_links)) = <<>> THEN normalise_links(Tail(raw_links))
    ELSE <<normalise_link(strip(Head(raw_links)))>>
             \o normalise_links(Tail(raw_links))

NewTaskRequest(title, status, next_action, summary, links) ==
    [title |-> title, status |-> status, next_action |-> next_action,
     summary |-> summary, links |-> links]

\* ops.py lines 176-179: the summary.md of a new task
created_summary(summary) ==
    IF rstrip(summary) # <<>> THEN File(rstrip(summary) \o <<"\n">>) ELSE NoFile

created_log_done_first(created_s, status) ==
    join(<<"\n">>, (IF status = DONE
                    THEN <<created_s \o <<":", " ", "[done]">>>>
                    ELSE <<>>)
                   \o <<created_s \o <<":", " ", "[created]">>>>)
        \o <<"\n">>

\* ops.py lines 170-174: the task.log of a new task
created_log(created_s, status) ==
    join(<<"\n">>, <<created_s \o <<":", " ", "[created]">>>>
                   \o (IF status = DONE
                       THEN <<created_s \o <<":", " ", "[done]">>>>
                       ELSE <<>>))
        \o <<"\n">>

\* create_task(cwd, req, interactive), with date.today() returning `day`:
\* the file system afterwards, the outcome and the new directory's name
create_task(fs, req, day, interactive, answer) ==
    LET e == ensure_tasks_dir(fs, interactive, answer)
        seq == next_task_seq(e.fs, day)
        task_id == task_id_of(day, seq, slugify(req.title))
        next_action == IF req.status = DONE THEN <<>> ELSE strip(req.next_action)
        created_s == isoformat(day)
        yml == File(render_task_yml(task_id, req.title, req.status, created_s,
                                    created_s, next_action,
                                    normalise_links(req.links), 2))
        log == File(created_log(created_s, req.status))
    IN  IF e.out.exc # NoExc THEN [fs |-> e.fs, out |-> e.out, dir |-> <<>>]
        ELSE IF task_id \in DOMAIN e.fs.entries
        THEN [fs |-> e.fs, out |-> Raise("FileExistsError", <<>>), dir |-> <<>>]
        ELSE [fs |-> put(e.fs, task_id,
                         TaskDir(yml, log, created_summary(req.summary))),
              out |-> Returned, dir |-> task_id]

(***************************************************************************)
(* The parser (engine/parse.py)                                            *)
(***************************************************************************)
is_file(f) == f.exists /\ "data" \in DOMAIN f

\* _require_files: the names of the required files that are missing
require_files(dir) ==
    LET missing == (IF is_file(dir.yml) THEN <<>> ELSE <<"task.yml">>)
                   \o (IF is_file(dir.log) THEN <<>> ELSE <<"task.log">>)
    IN  IF missing # <<>>
        THEN Raise("ParseError", <<"Missing required file(s)">> \o missing)
        ELSE Returned

\* _parse_task_yml: the mapping of the metadata file
EmptyMap ==
    Y_map(Y_missing, Y_missing, Y_missing, Y_missing, Y_missing, Y_missing,
          Y_missing, Y_missing)

parse_task_yml(f) ==
    LET y == f.data IN
    IF y.t = "invalid" THEN Raise("ParseError", <<"Invalid YAML">>)
    ELSE IF y.t = "null" THEN Ok(EmptyMap)
    ELSE IF y.t # "map" THEN Raise("ParseError", <<"YAML root must be a mapping/dictionary">>)
    ELSE Ok(y)

require_str_field(v, key, allow_empty) ==
    IF v.t = "missing" THEN Raise("ParseError", <<"Missing required YAML key", key>>)
    ELSE IF v.t # "str" THEN Raise("ParseError", <<"YAML key must be a string", key>>)
    ELSE IF ~allow_empty /\ strip(v.v) = <<>>
    THEN Raise("ParseError", <<"YAML key must be a non-empty string", key>>)
    ELSE Ok(v.v)

optional_int_field(v, default) ==
    IF v.t = "int" THEN v.n ELSE default

parse_status_exact(v) ==
    LET raw == require_str_field(v, "status", FALSE) IN
    IF raw.exc # NoExc THEN raw
    ELSE IF Len(raw.value) = 1 /\ raw.value[1] \in Status THEN Ok(raw.value[1])
    ELSE Raise("ParseError", <<"Invalid status">>)

\* Status(raw.strip().lower())
parse_status(v) ==
    LET raw == require_str_field(v, "status", FALSE) IN
    IF raw.exc # NoExc THEN raw
    ELSE LET w == lower(strip(raw.value)) IN
         IF Len(w) = 1 /\ w[1] \in Status THEN Ok(w[1])
         ELSE Raise("ParseError", <<"Invalid status">>)

parse_date(v, key) ==
    IF v.t = "missing" THEN Raise("ParseError", <<"Missing required YAML key", key>>)
    ELSE IF v.t \in {"date", "datetime"} THEN Ok(v.v)
    ELSE IF v.t = "str"
    THEN IF IsIsoDate(v.v) THEN Ok(fromisoformat(v.v))
         ELSE Raise("ParseError", <<"Invalid ISO date", key>>)
    ELSE Raise("ParseError", <<"YAML key must be an ISO date string", key>>)

parse_link_str_keep_case(s) ==
    IF find(first_word(s), ":") # 0
    THEN LET i == find(s, ":") IN
         Link(strip(SubSeq(s, 1, i - 1)), strip(SubSeq(s, i + 1, Len(s))))
    ELSE Link(<<"file">>, s)

\* one string entry of the links list: shorthand "kind: value" or bare value
parse_link_str(s) ==
    IF find(first_word(s), ":") # 0
    THEN LET i == find(s, ":") IN
         Link(lower(strip(SubSeq(s, 1, i - 1))), strip(SubSeq(s, i + 1, Len(s))))
    ELSE Link(<<"file">>, s)

\* the loop of _parse_links over raw[i..], entries numbered from 1
RECURSIVE parse_links_from(_, _)
parse_links_from(raw, i) ==
    IF i > Len(raw) THEN Ok(<<>>)
    ELSE LET item == raw[i]
             rest == parse_links_from(raw, i + 1)
         IN  IF item.t = "str"
             THEN IF strip(item.v) = <<>> THEN rest
                  ELSE IF rest.exc # NoExc THEN rest
                  ELSE Ok(<<parse_link_str(strip(item.v))>> \o rest.value)
             ELSE IF item.t = "map"
             THEN IF item.kind.t # "str" \/ item.value.t # "str"
                  THEN Raise("ParseError", <<"links entry must have string 'kind' and 'value'", ToString(i)>>)
                  ELSE IF rest.exc # NoExc THEN rest
                  ELSE Ok(<<Link(lower(strip(item.kind.v)), strip(item.value.v))>>
                          \o rest.value)
             ELSE Raise("ParseError", <<"links entry must be a mapping or a string", ToString(i)>>)

parse_links(v) ==
    IF v.t \in {"missing", "null"} THEN Ok(<<>>)
    ELSE IF v.t # "list" THEN Raise("ParseError", <<"YAML key 'links' must be a list">>)
    ELSE parse_links_from(v.v, 1)

\* the non-blank lines of the log file, right-trimmed
log_lines_of(text) ==
    LET kept == non_blank(splitlines(text)) IN
    [i \in 1..Len(kept) |-> rstrip(kept[i])]

parse_task_log_allow_empty(f) == Ok(log_lines_of(f.data))

parse_task_log(f) ==
    LET lines == log_lines_of(f.data) IN
    IF lines = <<>> THEN Raise("ParseError", <<"Log file is empty">>)
    ELSE Ok(lines)

read_optional_text(f) ==
    IF ~f.exists THEN Ok(<<>>)
    ELSE IF ~is_file(f) THEN Raise("ParseError", <<"summary.md exists but is not a file">>)
    ELSE Ok(f.data)

\* the field extraction of parse_task, after the files have been read
parse_fields(meta, log_lines, summary, expected_task_id) ==
    LET task_id == require_str_field(meta.id, "id", FALSE)
        title == require_str_field(meta.title, "title", FALSE)
        status == parse_status(meta.status)
        created == parse_date(meta.created, "created")
        last_touch == parse_date(meta.last_touch, "last_touch")
        next_action == require_str_field(meta.next_action, "next_action", TRUE)
        links == parse_links(meta.links)
        format_version == optional_int_field(meta.format, 2)
    IN  IF task_id.exc # NoExc THEN task_id
        ELSE IF expected_task_id # None /\ task_id.value # expected_task_id
        THEN Raise("ParseError", <<"YAML id does not match expected id">>)
        ELSE IF title.exc # NoExc THEN title
        ELSE IF status.exc # NoExc THEN status
        ELSE IF created.exc # NoExc THEN created
        ELSE IF last_touch.exc # NoExc THEN last_touch
        ELSE IF next_action.exc # NoExc THEN next_action
        ELSE IF links.exc # NoExc THEN links
        ELSE LET t == Task(task_id.value, title.value, status.value,
                           created.value, last_touch.value, next_action.value,
                           strip(summary), log_lines, links.value, format_version)
                 v == validate(t)
             IN  IF v.exc # NoExc THEN v ELSE Ok(t)

\* parse_task(task_dir, expected_task_id): the Task, or the exception raised
parse_task(fs, d, expected_task_id) ==
    IF ~(fs.exists /\ d \in DOMAIN fs.entries)
    THEN Raise("ParseError", <<"Task directory does not exist">>)
    ELSE IF ~is_dir(fs, d)
    THEN Raise("ParseError", <<"Task path is not a directory">>)
    ELSE LET dir == fs.entries[d]
             files == require_files(dir)
         IN  IF files.exc # NoExc THEN files
             ELSE LET meta == parse_task_yml(dir.yml)
                      log_lines == parse_task_log(dir.log)
                      summary == read_optional_text(dir.summary)
                  IN  IF meta.exc # NoExc THEN meta
                      ELSE IF log_lines.exc # NoExc THEN log_lines
                      ELSE IF summary.exc # NoExc THEN summary
                      ELSE parse_fields(meta.value, log_lines.value,
                                        summary.value, expected_task_id)

(***************************************************************************)
(* The actions (engine/actions.py)                                         *)
(*                                                                         *)
(* An action returns the Task object as it leaves it, the file system, the *)
(* exception raised (or none) and the number of input() calls it made.     *)
(* `ins` is what the line-input source answers to the first and to the     *)
(* second input() call: a line, or EOF.                                    *)
(***************************************************************************)
Outcome(t, fs, out, n) == [task |-> t, fs |-> fs, out |-> out, prompts |-> n]

\* _require_non_empty(value, prompt): the trimmed value, prompting when the
\* value is missing or blank
require_non_empty(value, answer) ==
    IF value # None /\ value # <<>> /\ strip(value) # <<>>
    THEN [out |-> Ok(strip(value)), asked |-> 0]
    ELSE IF answer = EOF
    THEN [out |-> Raise("ValidationError", <<"value is required">>), asked |-> 1]
    ELSE IF strip(answer) = <<>>
    THEN [out |-> Raise("ValidationError", <<"value is required">>), asked |-> 1]
    ELSE [out |-> Ok(strip(answer)), asked |-> 1]

append_log_front(t, day, entry) ==
    [t EXCEPT !.log_lines = <<isoformat(day) \o <<":", " ">> \o entry>> \o @,
              !.last_touch = day]

\* _append_log(task, entry), with _today() returning `day`
append_log(t, day, entry) ==
    [t EXCEPT !.log_lines = Append(@, isoformat(day) \o <<":", " ">> \o entry),
              !.last_touch = day]

action_parse_status_lenient(raw) ==
    LET w == lower(strip(raw)) IN
    IF Len(w) = 1 /\ w[1] \in Status THEN Ok(w[1])
    ELSE Raise("ValidationError", <<"Unknown status">>)

\* _parse_status(raw) of actions.py: Status(raw), no trimming, no lowering
action_parse_status(raw) ==
    IF Len(raw) = 1 /\ raw[1] \in Status THEN Ok(raw[1])
    ELSE Raise("ValidationError", <<"Unknown status">>)

\* _write(task, task_dir)
write(t, fs, d, n) ==
    LET w == write_task(fs, d, t) IN Outcome(t, w.fs, w.out, n)

set_status_keep_next_action(t, status, na) ==
    IF status # <<DONE>> THEN [t EXCEPT !.next_action = na] ELSE t

\* actions.py lines 100-103: the next_action set_status stores
set_status_next_action(t, status, na) ==
    IF status # <<DONE>> THEN [t EXCEPT !.next_action = na]
    ELSE [t EXCEPT !.next_action = <<>>]

status_entry_status_tag_only(status, msg) ==
    <<"[status]", " ">> \o status \o <<" ", "-", " ">> \o msg

\* actions.py lines 107-110: the log entry of set_status
status_entry(status, msg) ==
    IF status # <<DONE>>
    THEN <<"[status]", " ">> \o status \o <<" ", "-", " ">> \o msg
    ELSE <<"[done]", " ">> \o msg

set_status(t, fs, d, day, status, message, next_action, ins) ==
    LET m == require_non_empty(message, ins[1])
        n == IF status # <<DONE>>
             THEN require_non_empty(next_action, ins[1 + m.asked])
             ELSE [out |-> Ok(<<>>), asked |-> 0]
        asked == m.asked + n.asked
        t1 == set_status_next_action(t, status, n.out.value)
        st == action_parse_status(status)
        t2 == append_log([t1 EXCEPT !.status = st.value], day,
                         status_entry(status, m.out.value))
    IN  IF m.out.exc # NoExc THEN Outcome(t, fs, m.out, m.asked)
        ELSE IF n.out.exc # NoExc THEN Outcome(t, fs, n.out, asked)
        ELSE IF st.exc # NoExc THEN Outcome(t1, fs, st, asked)
        ELSE write(t2, fs, d, asked)

set_next_action_unguarded(t, fs, d, day, next_action, message, ins) ==
    LET m == require_non_empty(message, ins[1])
        n == require_non_empty(next_action, ins[1 + m.asked])
        asked == m.asked + n.asked
        t1 == append_log([t EXCEPT !.next_action = n.out.value], day,
                         <<"[next]", " ">> \o n.out.value \o <<" ", "-", " ">>
                             \o m.out.value)
    IN  IF m.out.exc # NoExc THEN Outcome(t, fs, m.out, m.asked)
        ELSE IF n.out.exc # NoExc THEN Outcome(t, fs, n.out, asked)
        ELSE write(t1, fs, d, asked)

set_next_action(t, fs, d, day, next_action, message, ins) ==
    LET m == require_non_empty(message, ins[1])
        n == require_non_empty(next_action, ins[1 + m.asked])
        asked == m.asked + n.asked
        t1 == append_log([t EXCEPT !.next_action = n.out.value], day,
                         <<"[next]", " ">> \o n.out.value \o <<" ", "-", " ">>
                             \o m.out.value)
    IN  IF t.status = DONE
        THEN Outcome(t, fs, Raise("ValidationError",
                                  <<"Cannot set next action on done task">>), 0)
        ELSE IF m.out.exc # NoExc THEN Outcome(t, fs, m.out, m.asked)
        ELSE IF n.out.exc # NoExc THEN Outcome(t, fs, n.out, asked)
        ELSE write(t1, fs, d, asked)

touch_task_reactivate(t, fs, d, day, message, ins) ==
    LET m == require_non_empty(message, ins[1])
        t1 == append_log([t EXCEPT !.status = ACTIVE], day,
                         <<"[touch]", " ", "-", " ">> \o m.out.value)
    IN  IF m.out.exc # NoExc THEN Outcome(t, fs, m.out, m.asked)
        ELSE write(t1, fs, d, m.asked)

touch_task_write_first(t, fs, d, day, message, ins) ==
    LET m == require_non_empty(message, ins[1])
        t0 == append_log(t, day, <<"[touch]", " ", "-", " ">>)
        t1 == append_log(t, day, <<"[touch]", " ", "-", " ">> \o m.out.value)
    IN  IF m.out.exc # NoExc
        THEN Outcome(t0, write_task(fs, d, t0).fs, m.out, m.asked)
        ELSE write(t1, fs, d, m.asked)

touch_task(t, fs, d, day, message, ins) ==
    LET m == require_non_empty(message, ins[1])
        t1 == append_log(t, day, <<"[touch]", " ", "-", " ">> \o m.out.value)
    IN  IF m.out.exc # NoExc THEN Outcome(t, fs, m.out, m.asked)
        ELSE write(t1, fs, d, m.asked)

(***************************************************************************)
(* Spec: the life of one task directory.  It starts as any directory that  *)
(* parse_task accepts (drawn from the set below); a command loads it with  *)
(* parse_task and applies actions to the Task object; the clock advances.  *)
(* As every command of cli.py does, the caller drops the Task object when  *)
(* an action raises and loads the directory again before the next action.  *)
(***************************************************************************)
TheDir == <<"2024-01-01", "_", "_", "0", "0", "1", "_", "_", "t">>
LogCreated == <<"2024-01-01", ":", " ", "[created]">>
LogTouch == <<"2024-01-02", ":", " ", "[touch]", " ", "-", " ", "m", "\n", "m">>
StatusArgs == {<<ACTIVE>>, <<WAITING>>, <<PAUSED>>, <<DONE>>, <<"Done">>}
MessageArgs == {None, <<" ">>, <<" ", "m", " ">>}
NextActionArgs == {None, <<"n", " ">>}
Inputs == {<<EOF, EOF>>, <<<<" ">>, EOF>>, <<<<"m", " ">>, EOF>>,
           <<<<"m", " ">>, <<"n", " ">>>>}

ActionOps == {"set_status", "set_next_action", "touch_task"}

StoredNextActions == {<<>>, <<" ">>, <<"n">>, <<" ", "n">>}

StoredDirs ==
    {TaskDir(File(render_task_yml(TheDir, <<"t">>, st, isoformat(c),
                                  isoformat(c), na,
                                  <<Link(<<"url">>, <<"u">>)>>, 2)),
             File(LogCreated \o <<"\n">>),
             File(<<"s", "\n">>)) :
        st \in {ACTIVE, DONE}, c \in Days, na \in StoredNextActions}

AcceptedStores ==
    {fs \in {put(StoreOf(<<>>), TheDir, dir) : dir \in StoredDirs} :
        parse_task(fs, TheDir, TheDir).exc = NoExc}

Init ==
    /\ today \in Days
    /\ store \in AcceptedStores
    /\ cur = TheDir
    /\ task = parse_task(store, cur, cur).value
    /\ result = NoCall
    /\ prompts = 0
    /\ failed = FALSE
    /\ request = NoReq
    /\ snap = <<>>
    /\ writes = 0
    /\ call = NoArgs
    /\ tree = <<>>
    /\ ret = <<>>
    /\ pc = <<>>
    /\ mem = <<>>

CanAct ==
    /\ task # NoTask
    /\ ~failed
    /\ Len(task.log_lines) < MaxLog

\* what the caller supplied for a required value: the argument trimmed, or,
\* when the argument is missing or blank, the line typed at the prompt
Supplied(value, answer) ==
    IF value # None /\ strip(value) # <<>> THEN strip(value)
    ELSE IF answer # EOF /\ strip(answer) # <<>> THEN strip(answer)
    ELSE Missing

\* the answer left for the second required value
SecondAnswer(first, ins) ==
    IF first # None /\ strip(first) # <<>> THEN ins[1] ELSE ins[2]

Apply(op, o, args) ==
    /\ task' = o.task
    /\ store' = o.fs
    /\ result' = Call(op, o.out)
    /\ prompts' = o.prompts
    /\ failed' = (o.out.exc # NoExc)
    /\ call' = args
    /\ UNCHANGED <<tree, ret, today, cur, request, snap, writes, pc, mem>>

SetStatus(status, message, next_action, ins) ==
    /\ CanAct
    /\ Apply("set_status",
             set_status(task, store, cur, today, status, message, next_action, ins),
             [status |-> status, message |-> Supplied(message, ins[1]),
              next_action |->
                  IF status = <<DONE>> THEN Supplied(next_action, EOF)
                  ELSE Supplied(next_action, SecondAnswer(message, ins))])

SetNextAction(next_action, message, ins) ==
    /\ CanAct
    /\ Apply("set_next_action",
             set_next_action(task, store, cur, today, next_action, message, ins),
             [status |-> None, message |-> Supplied(message, ins[1]),
              next_action |-> Supplied(next_action, SecondAnswer(message, ins))])

TouchTask(message, ins) ==
    /\ CanAct
    /\ Apply("touch_task", touch_task(task, store, cur, today, message, ins),
             [status |-> None, message |-> Supplied(message, ins[1]),
              next_action |-> Missing])

\* a command starts: _choose_task parses the directory again
Load ==
    /\ result.op # "parse_task"
    /\ LET p == parse_task(store, cur, cur) IN
        /\ task' = IF p.exc = NoExc THEN p.value ELSE NoTask
        /\ result' = Call("parse_task", p)
    /\ prompts' = 0
    /\ failed' = FALSE
    /\ call' = NoArgs
    /\ UNCHANGED <<tree, ret, today, store, cur, request, snap, writes, pc, mem>>

Tick ==
    /\ today < MaxDay
    /\ today' = today + 1
    /\ UNCHANGED <<tree, ret, store, cur, task, result, prompts, failed, request, snap, writes, call, pc, mem>>

Next ==
    \/ \E st \in StatusArgs, m \in MessageArgs, n \in NextActionArgs, ins \in Inputs :
          SetStatus(st, m, n, ins)
    \/ \E n \in NextActionArgs, m \in MessageArgs, ins \in Inputs :
          SetNextAction(n, m, ins)
    \/ \E m \in MessageArgs, ins \in Inputs : TouchTask(m, ins)
    \/ Load
    \/ Tick

Spec == Init /\ [][Next]_vars

\* a step of Spec that is a call of the action `op`
ActionStep(op) == result'.op = op /\ today' = today

MetaOnDisk == store.entries[cur].yml.data

DashSep == <<" ", "-", " ">>

\* C2: as long as no action has raised on it, the Task has a blank
\* next_action exactly when its status is done, and so has the task.yml last
\* written.  After a successful set_status to done the next_action is empty
\* whatever next_action was supplied; after a successful set_status to
\* another status it is the supplied next_action, trimmed and not empty.
C2_NextActionIffDone ==
    /\ (task # NoTask /\ ~failed) =>
          (task.status = DONE <=> strip(task.next_action) = <<>>)
    /\ (MetaOnDisk.status = Y_str(<<DONE>>)
           <=> strip(MetaOnDisk.next_action.v) = <<>>)
    /\ (result.op = "set_status" /\ result.exc = NoExc) =>
          /\ MetaOnDisk.next_action = Y_str(task.next_action)
          /\ MetaOnDisk.status = Y_str(<<task.status>>)
          /\ task.status = DONE <=> call.status = <<DONE>>
          /\ call.status = <<DONE>> => task.next_action = <<>>
          /\ call.status # <<DONE>> =>
                /\ task.next_action = call.next_action
                /\ call.next_action # Missing
                /\ task.next_action # <<>>
                /\ strip(task.next_action) = task.next_action

C2_Witness ==
    /\ result.op = "set_status"
    /\ result.exc = NoExc
    /\ call.status = <<DONE>>
    /\ call.next_action = <<"n">>
    /\ task.next_action = <<>>
    /\ MetaOnDisk.next_action = Y_str(<<>>)
    /\ Len(task.log_lines) = 3

\* C3: set_next_action on a done task raises the forbidden-transition
\* ValidationError whatever message and next_action are supplied, before
\* any prompt; the Task (log, next_action, last_touch) and the files are
\* left as they were.
C3_NextOnDoneFails ==
    [][(ActionStep("set_next_action") /\ task.status = DONE) =>
          /\ result'.exc = "ValidationError"
          /\ result'.msg = <<"Cannot set next action on done task">>
          /\ prompts' = 0
          /\ task' = task
          /\ store' = store]_vars

C3_Witness ==
    /\ result.op = "set_next_action"
    /\ result.msg = <<"Cannot set next action on done task">>
    /\ call.message = <<"m">>
    /\ call.next_action = <<"n">>
    /\ task.status = DONE

\* the log entry the claim names for a call
EntryOf(op, args) ==
    IF op = "set_status"
    THEN IF args.status = <<DONE>>
         THEN <<"[done]", " ">> \o args.message
         ELSE <<"[status]", " ">> \o args.status \o DashSep \o args.message
    ELSE IF op = "set_next_action"
    THEN <<"[next]", " ">> \o args.next_action \o DashSep \o args.message
    ELSE <<"[touch]", " ", "-", " ">> \o args.message

\* C4: every successful action appends exactly one entry to log_lines, the
\* earlier entries staying as they were, and sets last_touch to today; the
\* entry is "<today>: [<tag>] <detail>" with the tag and detail of the
\* action.
C4_OneEntryAppended ==
    [][\A op \in ActionOps :
          (ActionStep(op) /\ result'.exc = NoExc) =>
              /\ Len(task'.log_lines) = Len(task.log_lines) + 1
              /\ SubSeq(task'.log_lines, 1, Len(task.log_lines)) = task.log_lines
              /\ task'.log_lines[Len(task'.log_lines)]
                    = isoformat(today) \o <<":", " ">> \o EntryOf(op, call')
              /\ task'.last_touch = today]_vars

C4_Witness ==
    /\ result.op = "set_next_action"
    /\ result.exc = NoExc
    /\ prompts = 2
    /\ task.log_lines =
          <<LogCreated,
            <<"2024-01-01", ":", " ", "[status]", " ", "waiting", " ", "-", " ", "m">>,
            <<"2024-01-02", ":", " ", "[next]", " ", "n", " ", "-", " ", "m">>>>
    /\ task.last_touch = 2

\* C5: when an action raises, task.yml, task.log and summary.md are left
\* as they were; the files change only in a call that raises nothing.
C5_FailureWritesNothing ==
    [][\A op \in ActionOps :
          ActionStep(op) =>
              /\ result'.exc # NoExc => store' = store
              /\ store' # store => result'.exc = NoExc
              /\ result'.exc \in {NoExc, "ValidationError"}
              /\ (call'.message = Missing) => result'.exc = "ValidationError"]_vars

C5_Witness ==
    /\ result.op = "set_status"
    /\ result.exc = "ValidationError"
    /\ result.msg = <<"Unknown status">>
    /\ call.status = <<"Done">>
    /\ task.next_action = <<"m">>
    /\ MetaOnDisk.next_action = Y_str(<<" ", "n">>)

\* C6: a set_status call succeeds exactly when a message is supplied, the
\* target is one of the four statuses and, for a target other than done, a
\* next_action is supplied; it then leaves the task with the target status,
\* whatever the status was before (the same status and done included).
C6_SetStatusAlwaysLegal ==
    [][ActionStep("set_status") =>
          /\ result'.exc = NoExc <=>
                /\ call'.message # Missing
                /\ Len(call'.status) = 1 /\ call'.status[1] \in Status
                /\ call'.status # <<DONE>> => call'.next_action # Missing
          /\ result'.exc = NoExc =>
                /\ task'.status = call'.status[1]
                /\ MetaOnDisk'.status = Y_str(call'.status)
          /\ task.status \in Status]_vars

C6_Witness ==
    /\ result.op = "set_status"
    /\ result.exc = NoExc
    /\ task.status = PAUSED
    /\ Len(task.log_lines) = 3
    /\ task.log_lines[2] = <<"2024-01-01", ":", " ", "[done]", " ", "m">>

\* C7: a successful touch_task leaves status, next_action, task_id, title,
\* created, summary and links as they were; only log_lines (one entry more)
\* and last_touch change.
C7_TouchFrame ==
    [][(ActionStep("touch_task") /\ result'.exc = NoExc) =>
          /\ task'.status = task.status
          /\ task'.next_action = task.next_action
          /\ task'.task_id = task.task_id
          /\ task'.title = task.title
          /\ task'.created = task.created
          /\ task'.summary = task.summary
          /\ task'.links = task.links
          /\ task'.format_version = task.format_version
          /\ Len(task'.log_lines) = Len(task.log_lines) + 1]_vars

C7_Witness ==
    /\ result.op = "touch_task"
    /\ result.exc = NoExc
    /\ task.status = WAITING
    /\ task.next_action = <<"n">>
    /\ task.summary = <<"s">>
    /\ task.links = <<Link(<<"url">>, <<"u">>)>>
    /\ task.last_touch > task.created

(***************************************************************************)
(* SpecValidate: Task.validate() applied to every combination of field     *)
(* values drawn from the sets below.                                       *)
(***************************************************************************)
IdTexts == {<<>>, <<" ">>, <<"i">>, <<" ", "i">>}
TitleTexts == {<<>>, <<"\n">>, <<"t">>, <<"t", " ">>}
NextActionTexts == {<<>>, <<" ">>, <<"n">>, <<" ", "n", " ">>}

ValidateTasks ==
    {Task(i, ti, st, c, lt, na, <<>>, <<>>, <<>>, 1) :
        i \in IdTexts, ti \in TitleTexts, st \in Status,
        c \in Days, lt \in Days, na \in NextActionTexts}


InitValidate ==
    /\ task \in ValidateTasks
    /\ today = 1
    /\ store = NoStore
    /\ cur = <<>>
    /\ result = NoCall
    /\ prompts = 0
    /\ failed = FALSE
    /\ request = NoReq
    /\ snap = <<>>
    /\ writes = 0
    /\ call = NoArgs
    /\ tree = <<>>
    /\ ret = <<>>
    /\ pc = <<>>
    /\ mem = <<>>

Validate ==
    /\ task # NoTask
    /\ result.op = "none"
    /\ result' = Call("validate", validate(task))
    /\ UNCHANGED <<tree, ret, today, store, cur, task, prompts, failed, request, snap, writes, call, pc, mem>>

NextValidate == Validate

SpecValidate == InitValidate /\ [][NextValidate]_vars

\* C1: Task.validate() returns exactly when task_id and title are non-empty
\* after trimming, created <= last_touch, and the trimmed next_action is
\* empty exactly when status is done; otherwise it raises ValueError.
C1_ValidateIff ==
    result.op = "validate" =>
        /\ result.exc \in {NoExc, "ValueError"}
        /\ result.exc = NoExc <=>
              /\ strip(task.task_id) # <<>>
              /\ strip(task.title) # <<>>
              /\ task.created <= task.last_touch
              /\ (task.status = DONE => strip(task.next_action) = <<>>)
              /\ (task.status # DONE => strip(task.next_action) # <<>>)

C1_Witness ==
    /\ result.op = "validate"
    /\ result.exc = NoExc
    /\ task.status = DONE
    /\ task.next_action = <<" ">>
    /\ task.created < task.last_touch

(***************************************************************************)
(* SpecWrite: write_task called up to MaxWrites times in succession with   *)
(* the same unchanged Task, for Tasks and prior directory states drawn     *)
(* from the sets below.  The files of the directory are absent or regular  *)
(* files.                                                                  *)
(***************************************************************************)


WriteTasks ==
    {Task(TheDir, <<"t">>, st, 1, 2, IF st = DONE THEN <<>> ELSE <<"n">>,
          su, lg, ln, fv) :
        st \in {ACTIVE, DONE},
        su \in {<<>>, <<" ", "\n">>, <<"s">>, <<"s", " ", "s", "\n">>},
        lg \in {<<>>, <<LogCreated>>, <<LogCreated, <<" ">>, LogTouch \o <<" ">>>>},
        ln \in {<<>>, <<Link(<<"url">>, <<"u">>)>>},
        fv \in {1, 2}}

OldYmls == {NoFile, File([t |-> "invalid"])}
OldTexts == {NoFile, File(<<"o", "\n">>)}

WriteStores ==
    {StoreOf(<<>>)} \cup
    {put(StoreOf(<<>>), TheDir, TaskDir(y, l, su)) :
        y \in OldYmls, l \in OldTexts, su \in OldTexts}

InitWrite ==
    /\ task \in WriteTasks
    /\ store \in WriteStores
    /\ cur = TheDir
    /\ today = 1
    /\ result = NoCall
    /\ prompts = 0
    /\ failed = FALSE
    /\ request = NoReq
    /\ snap = <<>>
    /\ writes = 0
    /\ call = NoArgs
    /\ tree = <<>>
    /\ ret = <<>>
    /\ pc = <<>>
    /\ mem = <<>>

WriteTask ==
    /\ writes < MaxWrites
    /\ LET w == write_task(store, cur, task) IN
        /\ store' = w.fs
        /\ result' = Call("write_task", w.out)
    /\ writes' = writes + 1
    /\ UNCHANGED <<tree, ret, today, cur, task, prompts, failed, request, snap, call, pc, mem>>

NextWrite == WriteTask

SpecWrite == InitWrite /\ [][NextWrite]_vars

\* C9: a second write_task call with the same unchanged Task leaves the
\* task directory (task.yml, task.log, the presence and content of
\* summary.md) exactly as the first call left it.
C9_WriteIdempotent ==
    [][(writes >= 1 /\ writes' = writes + 1 /\ task' = task)
          => (store' = store /\ result'.exc = result.exc)]_vars

C9_Witness ==
    /\ writes = 2
    /\ result.exc = NoExc
    /\ task.summary = <<"s", " ", "s", "\n">>
    /\ Len(task.log_lines) = 3
    /\ store.entries[cur].summary = File(<<"s", " ", "s", "\n">>)

\* C10: write_task raises and changes nothing when the task directory does
\* not exist.  Otherwise task.yml and task.log are rewritten from the Task,
\* and summary.md is written with the summary when the summary is not
\* empty, deleted when the summary is empty and the file exists, and left
\* absent when the summary is empty and the file is absent.  "Empty" is
\* taken as the code takes it: nothing left after right-trimming.
C10_SummaryThreeWays ==
    [][writes' = writes + 1 =>
        IF ~is_dir(store, cur)
        THEN result'.exc = "FileNotFoundError" /\ store' = store
        ELSE LET old == store.entries[cur]
                 new == store'.entries[cur]
                 empty == rstrip(task.summary) = <<>>
             IN  /\ result'.exc = NoExc
                 /\ DOMAIN store'.entries = DOMAIN store.entries
                 /\ new.yml.exists /\ new.yml.data.id = Y_str(task.task_id)
                 /\ new.yml.data.status = Y_str(<<task.status>>)
                 /\ new.yml.data.next_action = Y_str(task.next_action)
                 /\ new.yml.data.last_touch = Y_str(isoformat(task.last_touch))
                 /\ new.log.exists
                 /\ log_lines_of(new.log.data)
                       = log_lines_of(join(<<"\n">>, task.log_lines))
                 /\ ~empty => new.summary = File(rstrip(task.summary) \o <<"\n">>)
                 /\ (empty /\ old.summary.exists) => ~new.summary.exists
                 /\ (empty /\ ~old.summary.exists) => ~new.summary.exists
      ]_vars

C10_Witness ==
    /\ writes = 1
    /\ result.exc = NoExc
    /\ rstrip(task.summary) = <<>>
    /\ ~store.entries[cur].summary.exists
    /\ store.entries[cur].log = File(LogCreated \o <<"\n">>)

(***************************************************************************)
(* SpecCreate: one create_task call on a request and a store drawn from    *)
(* the sets below, then parse_task on the new directory, write_task of the *)
(* parsed Task and parse_task again.                                       *)
(***************************************************************************)
RequestTitles == {<<>>, <<" ">>, <<"t">>, <<" ", "F", "!", " ", "a", " ">>}
RequestNextActions == {<<>>, <<"n">>, <<" ", "n", " ">>}
RequestSummaries == {<<>>, <<" ">>, <<"s">>, <<" ", "s", "\n">>}
RequestLinks ==
    {<<>>,
     <<<<"U", ":", " ", "u", " ">>, <<" ">>, <<"x", " ", "x">>>>,
     <<<<":", "x">>>>}

Requests ==
    {NewTaskRequest(ti, st, na, su, ln) :
        ti \in RequestTitles, st \in Status, na \in RequestNextActions,
        su \in RequestSummaries, ln \in RequestLinks}

OlderDir == TaskDir(File([t |-> "null"]), File(LogCreated \o <<"\n">>), NoFile)

CreateStores ==
    {NoStore, StoreOf(<<>>), put(StoreOf(<<>>), TheDir, OlderDir)}

InitCreate ==
    /\ request \in Requests
    /\ store \in CreateStores
    /\ today \in Days
    /\ cur = <<>>
    /\ task = NoTask
    /\ result = NoCall
    /\ prompts = 0
    /\ failed = FALSE
    /\ snap = <<>>
    /\ writes = 0
    /\ call = NoArgs
    /\ tree = <<>>
    /\ ret = <<>>
    /\ pc = <<>>
    /\ mem = <<>>

CreateTask(interactive, answer) ==
    /\ result.op = "none"
    /\ LET c == create_task(store, request, today, interactive, answer) IN
        /\ store' = c.fs
        /\ cur' = c.dir
        /\ result' = Call("create_task", c.out)
    /\ prompts' = IF interactive /\ ~store.exists THEN 1 ELSE 0
    /\ UNCHANGED <<tree, ret, today, task, failed, request, snap, writes, call, pc, mem>>

\* parse_task(task_dir, expected_task_id = the directory's name)
ParseTask ==
    /\ result.op \in {"create_task", "write_task"}
    /\ result.exc = NoExc
    /\ LET p == parse_task(store, cur, cur) IN
        /\ task' = IF p.exc = NoExc THEN p.value ELSE NoTask
        /\ snap' = IF p.exc = NoExc THEN Append(snap, p.value) ELSE snap
        /\ result' = Call("parse_task", p)
    /\ UNCHANGED <<tree, ret, today, store, cur, prompts, failed, request, writes, call, pc, mem>>

WriteBack ==
    /\ result.op = "parse_task"
    /\ result.exc = NoExc
    /\ writes = 0
    /\ LET w == write_task(store, cur, task) IN
        /\ store' = w.fs
        /\ result' = Call("write_task", w.out)
    /\ writes' = 1
    /\ UNCHANGED <<tree, ret, today, cur, task, prompts, failed, request, snap, call, pc, mem>>

NextCreate ==
    \/ \E i \in BOOLEAN, a \in {EOF, <<>>, <<"n">>} : CreateTask(i, a)
    \/ ParseTask
    \/ WriteBack

SpecCreate == InitCreate /\ [][NextCreate]_vars

\* the requests the round trip is claimed for
RoundTripRequest(r) ==
    /\ strip(r.title) # <<>>
    /\ r.status # DONE => strip(r.next_action) # <<>>

\* the Task a request implies, but for its summary
ImpliedBy(r, dir, day, summary) ==
    Task(dir, r.title, r.status, day, day,
         IF r.status = DONE THEN <<>> ELSE strip(r.next_action),
         summary,
         <<isoformat(day) \o <<":", " ", "[created]">>>>
             \o (IF r.status = DONE
                 THEN <<isoformat(day) \o <<":", " ", "[done]">>>>
                 ELSE <<>>),
         normalise_links(r.links), 2)

Created == cur # <<>>

\* C8 as stated: the parsed Task has summary = the request summary.
C8_RoundTripAsStated ==
    (RoundTripRequest(request) /\ Created /\ result.op # "create_task") =>
        /\ Len(snap) >= 1
        /\ snap[1] = ImpliedBy(request, cur, today, request.summary)
        /\ Len(snap) = 2 => snap[2] = snap[1]

\* C8 (amended): for a request with a non-blank title and, unless the
\* status is done, a non-blank next_action, parse_task on the directory
\* create_task made returns the Task the request implies, its summary being
\* the request summary with leading and trailing whitespace removed; after
\* write_task of that Task, parse_task returns an equal Task.
C8_RoundTrip ==
    (RoundTripRequest(request) /\ Created /\ result.op # "create_task") =>
        /\ Len(snap) >= 1
        /\ snap[1] = ImpliedBy(request, cur, today, strip(request.summary))
        /\ Len(snap) = 2 => snap[2] = snap[1]
        /\ (writes = 1 /\ result.op = "write_task") => result.exc = NoExc

C8_Witness ==
    /\ Len(snap) = 2
    /\ request.title = <<" ", "F", "!", " ", "a", " ">>
    /\ request.next_action = <<" ", "n", " ">>
    /\ request.summary = <<" ", "s", "\n">>
    /\ Len(request.links) = 3
    /\ snap[2].links = <<Link(<<"u">>, <<"u">>), Link(<<"file">>, <<"x", " ", "x">>)>>
    /\ snap[2].summary = <<"s">>
    /\ cur = <<"2024-01-01", "_", "_", "0", "0", "2", "_", "_", "f", "_", "a">>

\* C11: a successful create_task adds one directory to the store, named
\* "<today>__<seq, three digits>__<slugify(title)>" with seq the next
\* sequence number for today, and leaves the other entries alone.  Its
\* task.yml has id = that name, created = last_touch = today, format = 2,
\* the requested status, and an empty next_action when the status is done.
\* Its task.log is the one entry "<today>: [created]", followed by the
\* entry "<today>: [done]" when the status is done.  summary.md exists
\* exactly when the summary supplied is not empty (after right-trimming, as
\* the code takes it).
C11_CreateTask ==
    [][(result'.op = "create_task" /\ result'.exc = NoExc) =>
          LET seq == next_task_seq(store, today)
              name == isoformat(today) \o <<"_", "_">> \o pad3(seq)
                          \o <<"_", "_">> \o slugify(request.title)
              dir == store'.entries[cur']
              meta == dir.yml.data
              created_line == isoformat(today) \o <<":", " ", "[created]">>
              done_line == isoformat(today) \o <<":", " ", "[done]">>
          IN  /\ cur' = name
              /\ name \notin DOMAIN store.entries
              /\ store'.exists
              /\ DOMAIN store'.entries = DOMAIN store.entries \cup {name}
              /\ \A n \in DOMAIN store.entries :
                    store'.entries[n] = store.entries[n]
              /\ dir.kind = "dir"
              /\ meta.id = Y_str(name)
              /\ meta.created = Y_str(isoformat(today))
              /\ meta.last_touch = Y_str(isoformat(today))
              /\ meta.format = Y_int(2)
              /\ meta.status = Y_str(<<request.status>>)
              /\ request.status = DONE => meta.next_action = Y_str(<<>>)
              /\ dir.log = File(IF request.status = DONE
                                THEN created_line \o <<"\n">> \o done_line \o <<"\n">>
                                ELSE created_line \o <<"\n">>)
              /\ dir.summary.exists <=> rstrip(request.summary) # <<>>]_vars

C11_Witness ==
    /\ result.op = "create_task"
    /\ result.exc = NoExc
    /\ request.status = DONE
    /\ request.next_action = <<" ", "n", " ">>
    /\ request.summary = <<" ">>
    /\ cur = <<"2024-01-01", "_", "_", "0", "0", "2", "_", "_", "f", "_", "a">>
    /\ store.entries[cur].log =
          File(<<"2024-01-01", ":", " ", "[created]", "\n",
                 "2024-01-01", ":", " ", "[done]", "\n">>)
    /\ ~store.entries[cur].summary.exists
    /\ TheDir \in DOMAIN store.entries

(***************************************************************************)
(* SpecSeq: next_task_seq called once on a store holding any subset of the *)
(* entries below, for each date.                                           *)
(***************************************************************************)
\* an entry name "<date>__<second segment>" followed by "__<slug>"
SeqName(day, segment, slug) ==
    isoformat(day) \o <<"_", "_">> \o segment
        \o (IF slug = <<>> THEN <<>> ELSE <<"_", "_">> \o slug)

\* the entries a store may hold: name, directory or plain file, the day of
\* its prefix, and the number its second segment stands for (-1 when it
\* stands for no natural number)
SeqEntries ==
    <<[name |-> SeqName(1, <<"0", "0", "1">>, <<"a">>), dir |-> TRUE, day |-> 1, seq |-> 1],
      [name |-> SeqName(1, <<"0", "0", "3">>, <<"b">>), dir |-> TRUE, day |-> 1, seq |-> 3],
      [name |-> SeqName(2, <<"0", "0", "5">>, <<"c">>), dir |-> TRUE, day |-> 2, seq |-> 5],
      [name |-> SeqName(1, <<"x">>, <<"d">>), dir |-> TRUE, day |-> 1, seq |-> -1],
      [name |-> SeqName(1, <<"-", "2">>, <<"e">>), dir |-> TRUE, day |-> 1, seq |-> -1],
      [name |-> SeqName(1, <<"0", "0", "9">>, <<"f">>), dir |-> FALSE, day |-> 1, seq |-> 9],
      [name |-> SeqName(1, <<"+", "7">>, <<"g">>), dir |-> TRUE, day |-> 1, seq |-> 7],
      [name |-> SeqName(1, <<"0", "0", "4">>, <<>>), dir |-> TRUE, day |-> 1, seq |-> 4]>>

SeqStoreOf(held) ==
    StoreOf([n \in {SeqEntries[i].name : i \in held} |->
               LET e == SeqEntries[CHOOSE i \in held : SeqEntries[i].name = n]
               IN  IF e.dir THEN OlderDir ELSE PlainFile])

SeqStores == {NoStore} \cup {SeqStoreOf(held) : held \in SUBSET DOMAIN SeqEntries}

InitSeq ==
    /\ store \in SeqStores
    /\ today \in Days
    /\ cur = <<>>
    /\ task = NoTask
    /\ result = NoCall
    /\ prompts = 0
    /\ failed = FALSE
    /\ request = NoReq
    /\ snap = <<>>
    /\ writes = 0
    /\ call = NoArgs
    /\ tree = <<>>
    /\ ret = <<>>
    /\ pc = <<>>
    /\ mem = <<>>

\* next_task_seq(tasks_dir, created = today)
NextTaskSeq ==
    /\ result.op = "none"
    /\ ret' = next_task_seq(store, today)
    /\ result' = Call("next_task_seq", Returned)
    /\ UNCHANGED <<today, store, cur, task, prompts, failed, request, snap, writes, call, tree, pc, mem>>

NextSeq == NextTaskSeq

SpecSeq == InitSeq /\ [][NextSeq]_vars

\* the numbers of the store's subdirectories whose name starts with
\* "<today>__" and whose second segment stands for a natural number
NumbersFor(day) ==
    {SeqEntries[i].seq :
        i \in {j \in DOMAIN SeqEntries :
                 /\ store.exists
                 /\ SeqEntries[j].name \in DOMAIN store.entries
                 /\ SeqEntries[j].dir
                 /\ SeqEntries[j].day = day
                 /\ SeqEntries[j].seq >= 0}}

\* C12: next_task_seq returns 1 when the store is absent or holds no
\* subdirectory named "<date>__<number>..."; otherwise one more than the
\* largest such number.  Entries of other dates, plain files and names
\* whose second segment is no number change nothing, and the result is at
\* least 1.
C12_NextTaskSeq ==
    result.op = "next_task_seq" =>
        /\ ret = IF NumbersFor(today) = {} THEN 1
                 ELSE Max(NumbersFor(today)) + 1
        /\ ret >= 1

C12_Witness ==
    /\ result.op = "next_task_seq"
    /\ today = 1
    /\ ret = 4
    /\ DOMAIN store.entries = {SeqEntries[i].name : i \in {1, 2, 3, 4, 5, 6}}

(***************************************************************************)
(* SpecParse: parse_task called once, with and without an expected id, on  *)
(* a task directory whose task.yml, task.log and summary.md are drawn from *)
(* the sets below, and on a few directories that lack the files.           *)
(***************************************************************************)
ParseIds == {Y_str(TheDir), Y_str(<<"o">>)}

ParseStatuses ==
    {Y_str(<<ACTIVE>>), Y_str(<<WAITING>>), Y_str(<<PAUSED>>), Y_str(<<DONE>>),
     Y_str(<<" ", "Done", " ">>), Y_str(<<"bogus">>), Y_int(1), Y_missing}

ParseNextActions == {Y_str(<<>>), Y_str(<<" ">>), Y_str(<<"n">>)}

\* values of the links key, each with the Links it stands for and the
\* 1-based index of the entry that is refused (0 when none is)
ParseLinkCases ==
    <<[raw |-> Y_missing, links |-> <<>>, bad |-> 0],
      [raw |-> [t |-> "null"], links |-> <<>>, bad |-> 0],
      [raw |-> Y_list(<<>>), links |-> <<>>, bad |-> 0],
      [raw |-> Y_list(<<Y_str(<<"U", ":", " ", "u", " ">>),
                        Y_link(Y_str(<<" ", "U", " ">>), Y_str(<<" ", "x", " ">>))>>),
       links |-> <<Link(<<"u">>, <<"u">>), Link(<<"u">>, <<"x">>)>>, bad |-> 0],
      [raw |-> Y_list(<<Y_str(<<"x">>), Y_str(<<" ">>), Y_str(<<"a", " ", "k">>)>>),
       links |-> <<Link(<<"file">>, <<"x">>), Link(<<"file">>, <<"a", " ", "k">>)>>,
       bad |-> 0],
      [raw |-> Y_list(<<Y_str(<<"x">>), Y_int(3)>>), links |-> <<>>, bad |-> 2],
      [raw |-> Y_list(<<Y_list(<<>>)>>), links |-> <<>>, bad |-> 1],
      [raw |-> Y_list(<<Y_link(Y_int(1), Y_str(<<"x">>))>>), links |-> <<>>, bad |-> 1],
      [raw |-> Y_list(<<Y_str(<<>>), Y_link(Y_str(<<"url">>), Y_str(<<"u">>)),
                        Y_link(Y_str(<<"url">>), Y_missing)>>),
       links |-> <<>>, bad |-> 3]>>

ParseLogs ==
    {File(LogCreated \o <<"\n">>),
     File(<<" ", "\n">>),
     File(LogCreated \o <<" ", "\n", " ", "\n">> \o LogTouch \o <<"\n">>)}

ParseDirs ==
    {TaskDir(File(Y_map(id, Y_str(<<"t">>), st, Y_str(isoformat(c)),
                        Y_str(isoformat(l)), na, Y_int(2),
                        ParseLinkCases[k].raw)),
             log, NoFile) :
        id \in ParseIds, st \in ParseStatuses, c \in Days, l \in Days,
        na \in ParseNextActions, k \in DOMAIN ParseLinkCases, log \in ParseLogs}

\* directories that fail before any field is read
BrokenDirs ==
    {TaskDir(NoFile, File(LogCreated \o <<"\n">>), NoFile),
     TaskDir(File([t |-> "invalid"]), File(LogCreated \o <<"\n">>), NoFile),
     TaskDir(File([t |-> "null"]), File(LogCreated \o <<"\n">>), NoFile),
     TaskDir(File(Y_list(<<>>)), NoFile, NoFile),
     PlainFile}

ParseStores ==
    {NoStore} \cup {put(StoreOf(<<>>), TheDir, dir) : dir \in ParseDirs \cup BrokenDirs}

InitParse ==
    /\ store \in ParseStores
    /\ today = 1
    /\ cur = TheDir
    /\ task = NoTask
    /\ result = NoCall
    /\ prompts = 0
    /\ failed = FALSE
    /\ request = NoReq
    /\ snap = <<>>
    /\ writes = 0
    /\ call = NoArgs
    /\ tree = <<>>
    /\ ret = <<>>
    /\ pc = <<>>
    /\ mem = <<>>

\* parse_task(task_dir, expected_task_id)
ParseDir(expected_task_id) ==
    /\ result.op = "none"
    /\ LET p == parse_task(store, cur, expected_task_id) IN
        /\ task' = IF p.exc = NoExc THEN p.value ELSE NoTask
        /\ result' = Call("parse_task", p)
    /\ call' = [expected_task_id |-> expected_task_id]
    /\ UNCHANGED <<today, store, cur, prompts, failed, request, snap, writes, tree, ret, pc, mem>>

NextParse == \E e \in {None, TheDir} : ParseDir(e)

SpecParse == InitParse /\ [][NextParse]_vars

Parsed == result.op = "parse_task"

\* the directory holds a task.yml whose root is a mapping with keys
HasMeta ==
    /\ is_dir(store, cur)
    /\ is_file(store.entries[cur].yml)
    /\ MetaOnDisk.t = "map"
    /\ "id" \in DOMAIN MetaOnDisk

\* the files are there, the log has an entry and the id is the expected one
FilesAndIdFine ==
    /\ HasMeta
    /\ is_file(store.entries[cur].log)
    /\ \E i \in 1..Len(store.entries[cur].log.data) :
          store.entries[cur].log.data[i] \notin WS
    /\ MetaOnDisk.id.t = "str"
    /\ call.expected_task_id \in {None, MetaOnDisk.id.v}

\* the status word that the stored status value stands for after trimming
\* and lowercasing, or "unrecognised"
StatusRead ==
    IF MetaOnDisk.status.t = "str"
          /\ \E st \in Status : lower(strip(MetaOnDisk.status.v)) = <<st>>
    THEN CHOOSE st \in Status : lower(strip(MetaOnDisk.status.v)) = <<st>>
    ELSE "unrecognised"

\* the stored fields are well-formed, one by one
WellFormed ==
    /\ FilesAndIdFine
    /\ StatusRead # "unrecognised"
    /\ \E k \in DOMAIN ParseLinkCases :
          MetaOnDisk.links = ParseLinkCases[k].raw /\ ParseLinkCases[k].bad = 0

\* ... but break an invariant of the model
BreaksInvariant ==
    \/ fromisoformat(MetaOnDisk.created.v) > fromisoformat(MetaOnDisk.last_touch.v)
    \/ StatusRead = DONE /\ strip(MetaOnDisk.next_action.v) # <<>>
    \/ StatusRead # DONE /\ strip(MetaOnDisk.next_action.v) = <<>>

\* C13 as stated: when the stored fields are well-formed but break an
\* invariant of the model, parse_task raises ParseError; it raises nothing
\* but ParseError.
C13_InvariantAsParseError ==
    Parsed =>
        /\ (WellFormed /\ BreaksInvariant) => result.exc = "ParseError"
        /\ result.exc \in {NoExc, "ParseError"}

\* what the code does in that case: the ValueError of Task.validate()
\* reaches the caller
C13_Witness ==
    /\ Parsed
    /\ WellFormed
    /\ fromisoformat(MetaOnDisk.created.v) > fromisoformat(MetaOnDisk.last_touch.v)
    /\ result.exc = "ValueError"
    /\ result.msg = <<"created must be <= last_touch">>

\* C14: a Task returned by parse_task satisfies the invariant of
\* Task.validate(), has one of the four statuses, has at least one log
\* line and no blank one, and has the expected id when one was supplied;
\* when parse_task raises, the caller gets no Task.
C14_NoPartialTask ==
    Parsed =>
        IF result.exc = NoExc
        THEN /\ task # NoTask
             /\ strip(task.task_id) # <<>>
             /\ strip(task.title) # <<>>
             /\ task.created <= task.last_touch
             /\ task.status \in Status
             /\ task.status = DONE <=> strip(task.next_action) = <<>>
             /\ Len(task.log_lines) >= 1
             /\ \A i \in 1..Len(task.log_lines) : strip(task.log_lines[i]) # <<>>
             /\ call.expected_task_id # None => task.task_id = call.expected_task_id
        ELSE task = NoTask

C14_Witness ==
    /\ Parsed
    /\ result.exc = NoExc
    /\ call.expected_task_id = TheDir
    /\ task.task_id = TheDir
    /\ task.status = DONE
    /\ task.next_action = <<" ">>
    /\ task.log_lines = <<LogCreated, <<"2024-01-02", ":", " ", "[touch]", " ", "-", " ", "m">>, <<"m">>>>

\* C15 as stated: parse_task raises ParseError whenever the stored status
\* value is not one of the four words, and returns only for those four.
C15_StatusAsStated ==
    (Parsed /\ HasMeta) =>
        /\ MetaOnDisk.status \notin {Y_str(<<st>>) : st \in Status}
              => result.exc = "ParseError"
        /\ result.exc = NoExc
              => MetaOnDisk.status \in {Y_str(<<st>>) : st \in Status}

\* C15 (amended): parse_task raises ParseError whenever the stored status
\* value is not a string that, after trimming and lowercasing, is one of the
\* four words (with the message "Invalid status" when it is a non-blank
\* string and the files and the id are fine); when parse_task returns, the
\* Task has the status that the trimmed, lowercased value names.
C15_Status ==
    (Parsed /\ HasMeta) =>
        /\ StatusRead = "unrecognised" => result.exc = "ParseError"
        /\ (StatusRead = "unrecognised" /\ FilesAndIdFine /\ MetaOnDisk.status.t = "str")
              => result.msg = <<"Invalid status">>
        /\ StatusRead # "unrecognised" => result.msg # <<"Invalid status">>
        /\ result.exc = NoExc => task.status = StatusRead

C15_Witness ==
    /\ Parsed
    /\ result.exc = NoExc
    /\ MetaOnDisk.status = Y_str(<<" ", "Done", " ">>)
    /\ task.status = DONE

\* an entry of the links list that is a mapping with string kind and value
IsLinkMapping(item) ==
    item.t = "map" /\ item.kind.t = "str" /\ item.value.t = "str"

\* the links list stored, <<>> when the key is absent or null
LinkItems == IF MetaOnDisk.links.t = "list" THEN MetaOnDisk.links.v ELSE <<>>

\* the first index of the links list whose entry is not in Good, 0 if none
FirstBad(Good(_)) ==
    IF \E i \in 1..Len(LinkItems) : ~Good(LinkItems[i])
    THEN CHOOSE i \in 1..Len(LinkItems) :
            ~Good(LinkItems[i]) /\ \A j \in 1..(i - 1) : Good(LinkItems[j])
    ELSE 0

LinksReached == FilesAndIdFine /\ StatusRead # "unrecognised"

\* the entries the claim accepts: non-blank strings and link mappings
AcceptedAsStated(item) ==
    \/ item.t = "str" /\ strip(item.v) # <<>>
    \/ IsLinkMapping(item)

\* the entries the code accepts: strings and link mappings
Accepted(item) == item.t = "str" \/ IsLinkMapping(item)

\* C16 as stated: every links entry that is a non-blank string or a link
\* mapping yields one Link; an entry of any other shape, a blank or empty
\* string included, makes parse_task raise a ParseError naming its index.
C16_LinksAsStated ==
    (Parsed /\ LinksReached) =>
        IF FirstBad(AcceptedAsStated) = 0
        THEN result.exc = NoExc => Len(task.links) = Len(LinkItems)
        ELSE /\ result.exc = "ParseError"
             /\ Len(result.msg) = 2
             /\ result.msg[2] = ToString(FirstBad(AcceptedAsStated))

\* C16 (amended): every links entry that is a non-blank string or a link
\* mapping yields one Link, in list order; an empty or blank string entry is
\* skipped, yielding no Link and no error; an entry of any other shape (a
\* number, a nested list, a mapping whose kind or value is not a string)
\* makes parse_task raise a ParseError naming its 1-based index.  An absent
\* or empty links key yields no links.
C16_Links ==
    (Parsed /\ LinksReached) =>
        LET k == CHOOSE j \in DOMAIN ParseLinkCases :
                    ParseLinkCases[j].raw = MetaOnDisk.links
        IN  /\ ParseLinkCases[k].bad = FirstBad(Accepted)
            /\ IF FirstBad(Accepted) = 0
               THEN /\ result.exc \in {NoExc, "ValueError"}
                    /\ result.exc = NoExc =>
                          /\ task.links = ParseLinkCases[k].links
                          /\ Len(task.links) =
                                Cardinality({i \in 1..Len(LinkItems) :
                                               AcceptedAsStated(LinkItems[i])})
               ELSE /\ result.exc = "ParseError"
                    /\ Len(result.msg) = 2
                    /\ result.msg[2] = ToString(FirstBad(Accepted))

C16_Witness ==
    /\ Parsed
    /\ result.exc = NoExc
    /\ MetaOnDisk.links = ParseLinkCases[5].raw
    /\ task.links = <<Link(<<"file">>, <<"x">>), Link(<<"file">>, <<"a", " ", "k">>)>>

(***************************************************************************)
(* The scanner (engine/scan.py)                                            *)
(*                                                                         *)
(* A directory tree maps the path of each entry below the root (a sequence *)
(* of names, <<>> for the root itself) to its kind; a directory is         *)
(* listable unless iterdir() on it raises PermissionError.                 *)
(***************************************************************************)
TASKS == ".tasks"

Project(root_dir) == [root_dir |-> root_dir, tasks_dir |-> Append(root_dir, TASKS)]

is_dir_at(t, path) == path \in DOMAIN t /\ t[path].kind = "dir"

\* the order in which iterdir() hands out the names of a directory
ListingOrder == <<"b", TASKS, "a", "c", "p">>

\* d.iterdir(): the entries of directory d, in listing order
RECURSIVE iterdir_from(_, _, _)
iterdir_from(t, d, i) ==
    IF i > Len(ListingOrder) THEN <<>>
    ELSE (IF Append(d, ListingOrder[i]) \in DOMAIN t
          THEN <<Append(d, ListingOrder[i])>> ELSE <<>>)
             \o iterdir_from(t, d, i + 1)

iterdir(t, d) == iterdir_from(t, d, 1)

RECURSIVE walk_dir(_, _, _, _)
RECURSIVE walk_children(_, _, _, _)
\* the loop of walk_dir over the entries `kids` of a directory at `depth`
\* (scan.py lines 66-71)
walk_children(t, kids, depth, level) ==
    IF kids = <<>> THEN <<>>
    ELSE LET child == Head(kids)
             below == IF t[child].kind # "dir" THEN <<>>
                      ELSE IF child[Len(child)] = TASKS THEN <<>>
                      ELSE walk_dir(t, child, depth + 1, level)
         IN  below \o walk_children(t, Tail(kids), depth, level)

walk_dir_drop_unreadable(t, d, depth, level) ==
    LET own == IF is_dir_at(t, Append(d, TASKS)) THEN <<Project(d)>> ELSE <<>>
    IN  IF ~t[d].listable THEN <<>>
        ELSE IF depth >= level THEN own
        ELSE own \o walk_children(t, iterdir(t, d), depth, level)

walk_dir_one_level_more(t, d, depth, level) ==
    LET own == IF is_dir_at(t, Append(d, TASKS)) THEN <<Project(d)>> ELSE <<>>
    IN  IF depth > level THEN own
        ELSE IF ~t[d].listable THEN own
        ELSE own \o walk_children(t, iterdir(t, d), depth, level)

\* walk_dir(d, depth): the Projects it yields, in order; the
\* PermissionError of d.iterdir() ends the walk of d only
walk_dir(t, d, depth, level) ==
    LET own == IF is_dir_at(t, Append(d, TASKS)) THEN <<Project(d)>> ELSE <<>>
    IN  IF depth >= level THEN own
        ELSE IF ~t[d].listable THEN own
        ELSE own \o walk_children(t, iterdir(t, d), depth, level)

\* iter_projects(root, level): the Projects yielded, in order
iter_projects(t, level) ==
    IF level < 0 THEN <<>> ELSE walk_dir(t, <<>>, 0, level)

(***************************************************************************)
(* SpecScan: iter_projects called once, for each level, on each directory  *)
(* tree built from the entries below, with at most one directory whose     *)
(* listing raises PermissionError.                                         *)
(***************************************************************************)
MaxLevel == 3

\* the entries a tree may hold as directories, and those it may hold as
\* plain files instead
DirPaths ==
    {<<"a">>, <<"b">>, <<"a", "c">>, <<"b", "c">>,
     <<TASKS>>, <<"a", TASKS>>, <<"b", TASKS>>, <<"a", "c", TASKS>>, <<"b", "c", TASKS>>,
     <<TASKS, "p">>, <<TASKS, "p", TASKS>>}

FilePaths == {<<"b">>, <<TASKS>>, <<"a", TASKS>>}

\* directories whose listing may be refused
Lockable == {<<>>, <<"a">>, <<"b">>}

Parent(path) == SubSeq(path, 1, Len(path) - 1)

TreeOf(dirs, files, locked) ==
    [path \in dirs \cup files \cup {<<>>} |->
        IF path \in files THEN [kind |-> "file", listable |-> FALSE]
        ELSE [kind |-> "dir", listable |-> path \notin locked]]

ScanTrees ==
    {TreeOf(dirs, files, locked) :
        <<dirs, files, locked>> \in
            {x \in (SUBSET DirPaths) \X (SUBSET FilePaths) \X ({{}} \cup {{d} : d \in Lockable}) :
                /\ x[1] \cap x[2] = {}
                /\ \A path \in x[1] \cup x[2] : Parent(path) \in x[1] \cup {<<>>}
                /\ x[3] \subseteq x[1] \cup {<<>>}}}

InitScan ==
    /\ tree \in ScanTrees
    /\ today = 1
    /\ store = NoStore
    /\ cur = <<>>
    /\ task = NoTask
    /\ result = NoCall
    /\ prompts = 0
    /\ failed = FALSE
    /\ request = NoReq
    /\ snap = <<>>
    /\ writes = 0
    /\ call = NoArgs
    /\ ret = <<>>
    /\ pc = <<>>
    /\ mem = <<>>

\* list(iter_projects(root, level))
IterProjects(level) ==
    /\ result.op = "none"
    /\ ret' = iter_projects(tree, level)
    /\ result' = Call("iter_projects", Returned)
    /\ call' = [level |-> level]
    /\ UNCHANGED <<today, store, cur, task, prompts, failed, request, snap, writes, tree, pc, mem>>

NextScan == \E level \in -1..MaxLevel : IterProjects(level)

SpecScan == InitScan /\ [][NextScan]_vars

Scanned == result.op = "iter_projects"

\* the directories at depth <= level that directly contain a .tasks
\* directory and have no .tasks on their path
ProjectDirs(level) ==
    {d \in DOMAIN tree :
        /\ tree[d].kind = "dir"
        /\ Len(d) <= level
        /\ \A i \in 1..Len(d) : d[i] # TASKS
        /\ Append(d, TASKS) \in DOMAIN tree
        /\ tree[Append(d, TASKS)].kind = "dir"}

Yielded == {ret[i].root_dir : i \in 1..Len(ret)}

\* d lies below a directory whose listing is refused
BelowUnreadable(d) ==
    \E i \in 0..(Len(d) - 1) : ~tree[SubSeq(d, 1, i)].listable

NoneRefused == \A d \in DOMAIN tree : tree[d].kind = "dir" => tree[d].listable

\* C17: when no listing is refused, iter_projects yields exactly the
\* directories at depth <= level that directly contain a .tasks directory
\* and have no .tasks on their path, each once, as a Project naming the
\* directory and its .tasks; nothing for level < 0, at most the root for
\* level 0.
C17_IterProjects ==
    (Scanned /\ NoneRefused) =>
        /\ Yielded = ProjectDirs(call.level)
        /\ Len(ret) = Cardinality(ProjectDirs(call.level))
        /\ \A i \in 1..Len(ret) : ret[i].tasks_dir = Append(ret[i].root_dir, TASKS)
        /\ call.level < 0 => ret = <<>>
        /\ call.level = 0 => Yielded \subseteq {<<>>}

\* .tasks at depth 0 and at depth 2 (and inside the root's .tasks): level 1
\* yields the root only
C17_Witness ==
    /\ Scanned
    /\ NoneRefused
    /\ call.level = 1
    /\ is_dir_at(tree, <<TASKS>>)
    /\ is_dir_at(tree, <<"a", "c", TASKS>>)
    /\ is_dir_at(tree, <<TASKS, "p", TASKS>>)
    /\ <<"a", TASKS>> \notin DOMAIN tree
    /\ ret = <<Project(<<>>)>>

\* C18: when listings are refused, iter_projects still returns normally
\* and yields exactly the projects of C17 that do not lie below a directory
\* whose listing is refused: that directory itself and everything outside
\* its subtree are still yielded.
C18_PermissionSkipped ==
    Scanned =>
        /\ result.exc = NoExc
        /\ Yielded = {d \in ProjectDirs(call.level) : ~BelowUnreadable(d)}
        /\ Len(ret) = Cardinality(Yielded)

C18_Witness ==
    /\ Scanned
    /\ call.level = 2
    /\ is_dir_at(tree, <<"b">>)
    /\ ~tree[<<"b">>].listable
    /\ is_dir_at(tree, <<"b", "c", TASKS>>)
    /\ ret = <<Project(<<>>), Project(<<"b">>), Project(<<"a">>), Project(<<"a", "c">>)>>

(***************************************************************************)
(* The validator (engine/validate.py)                                      *)
(*                                                                         *)
(* The log rules read a line character by character: a symbol that stands  *)
(* for a run of characters (a date, a tag such as "[done]") is spelled out *)
(* first.                                                                  *)
(***************************************************************************)
LowerLetters ==
    {"a", "b", "c", "d", "e", "f", "g", "h", "i", "j", "k", "l", "m", "n",
     "o", "p", "q", "r", "s", "t", "u", "v", "w", "x", "y", "z"}

\* the characters of one symbol
explode(c) ==
    IF \E d \in DOMAIN IsoDates : c = IsoDates[d]
    THEN <<"2", "0", "2", "4", "-", "0", "1", "-", "0",
           Digits[(CHOOSE d \in DOMAIN IsoDates : c = IsoDates[d]) + 1]>>
    ELSE CASE c = "2024-99-99" -> <<"2", "0", "2", "4", "-", "9", "9", "-", "9", "9">>
           [] c = "[created]" -> <<"[", "c", "r", "e", "a", "t", "e", "d", "]">>
           [] c = "[done]" -> <<"[", "d", "o", "n", "e", "]">>
           [] c = "[status]" -> <<"[", "s", "t", "a", "t", "u", "s", "]">>
           [] c = "[next]" -> <<"[", "n", "e", "x", "t", "]">>
           [] c = "[touch]" -> <<"[", "t", "o", "u", "c", "h", "]">>
           [] c = "active" -> <<"a", "c", "t", "i", "v", "e">>
           [] c = "waiting" -> <<"w", "a", "i", "t", "i", "n", "g">>
           [] c = "paused" -> <<"p", "a", "u", "s", "e", "d">>
           [] c = "done" -> <<"d", "o", "n", "e">>
           [] OTHER -> <<c>>

RECURSIVE chars(_)
chars(s) == IF s = <<>> THEN <<>> ELSE explode(Head(s)) \o chars(Tail(s))

\* the number of symbols at the start of s that are in set S
RECURSIVE run(_, _)
run(s, S) ==
    IF s = <<>> \/ Head(s) \notin S THEN 0 ELSE 1 + run(Tail(s), S)

drop(s, n) == SubSeq(s, n + 1, Len(s))

DigitChars == {Digits[i] : i \in DOMAIN Digits}

\* "$": the end of the string, or just before a newline that ends it
at_end(s) == s = <<>> \/ s = <<"\n">>

tail_matches_glued(r) == \A i \in 1..Len(r) : r[i] # "\n"

\* (?:\s+.+)?$ on what follows the tag
tail_matches(r) ==
    \/ at_end(r)
    \/ \E k \in 1..Len(r) : \E j \in (k + 1)..Len(r) :
          /\ \A i \in 1..k : r[i] \in WS
          /\ \A i \in (k + 1)..j : r[i] # "\n"
          /\ at_end(drop(r, j))

\* _LOG_LINE_RE.match(s), on the characters of s
log_line_re_match(cs) ==
    /\ Len(cs) >= 11
    /\ \A i \in {1, 2, 3, 4, 6, 7, 9, 10} : cs[i] \in DigitChars
    /\ cs[5] = "-" /\ cs[8] = "-"
    /\ cs[11] = ":"
    /\ LET r1 == drop(cs, 11)
           r2 == drop(r1, run(r1, WS))
           r3 == drop(r2, 1)
           r4 == drop(r3, run(r3, LowerLetters \cup {"_"}))
       IN  /\ run(r1, WS) >= 1
           /\ r2 # <<>> /\ r2[1] = "["
           /\ run(r3, LowerLetters \cup {"_"}) >= 1
           /\ r4 # <<>> /\ r4[1] = "]"
           /\ tail_matches(drop(r4, 1))

\* needle in text, for sequences of characters
contains(text, needle) ==
    \E i \in 0..(Len(text) - Len(needle)) :
        SubSeq(text, i + 1, i + Len(needle)) = needle

\* a ValidationIssue: its code, the line or link number its message names
\* (0 when it names none) and the text its message quotes
Issue(code, n, text) == [code |-> code, n |-> n, text |-> text]

\* validate.py lines 134-145: the log_bad_format issues of lines i..
RECURSIVE log_format_issues(_, _)
log_format_issues(log_lines, i) ==
    IF i > Len(log_lines) THEN <<>>
    ELSE LET s == strip(log_lines[i]) IN
         (IF s # <<>> /\ ~log_line_re_match(chars(s))
          THEN <<Issue("log_bad_format", i, <<>>)>> ELSE <<>>)
             \o log_format_issues(log_lines, i + 1)

has_done_marker_case_sensitive(log_lines) ==
    \E i \in 1..Len(log_lines) :
        contains(chars(strip(log_lines[i])), chars(<<"[done]">>))

\* _has_done_marker(log_lines)
has_done_marker(log_lines) ==
    \E i \in 1..Len(log_lines) :
        contains(lower(chars(strip(log_lines[i]))), chars(<<"[done]">>))

\* _validate_link_basic(link, issues, idx)
validate_link_basic(link, idx) ==
    (IF lower(strip(link.kind)) \notin {<<"file">>, <<"url">>, <<"note">>}
     THEN <<Issue("link_kind_invalid", idx, link.kind)>> ELSE <<>>)
    \o (IF strip(link.value) = <<>>
        THEN <<Issue("link_value_empty", idx, <<>>)>> ELSE <<>>)

RECURSIVE link_issues(_, _)
link_issues(links, i) ==
    IF i > Len(links) THEN <<>>
    ELSE validate_link_basic(links[i], i) \o link_issues(links, i + 1)

\* rel.split("/")
RECURSIVE split_path(_)
split_path(rel) ==
    LET i == find(rel, "/") IN
    IF i = 0 THEN <<rel>>
    ELSE <<SubSeq(rel, 1, i - 1)>> \o split_path(drop(rel, i))

\* Path.resolve() without symbolic links: the components of an absolute
\* path, "." and "" dropped, ".." removing the component before it
RECURSIVE resolve(_, _)
resolve(base, parts) ==
    IF parts = <<>> THEN base
    ELSE IF Head(parts) \in {<<>>, <<".">>} THEN resolve(base, Tail(parts))
    ELSE IF Head(parts) = <<".", ".">>
    THEN resolve(SubSeq(base, 1, Len(base) - 1), Tail(parts))
    ELSE resolve(Append(base, Head(parts)), Tail(parts))

\* (root / rel).resolve(): an absolute rel replaces root
resolve_under(root, rel) ==
    IF rel # <<>> /\ Head(rel) = "/" THEN resolve(<<>>, split_path(rel))
    ELSE resolve(root, split_path(rel))

is_relative_to_anything(target, root) == TRUE

\* target.relative_to(root) raises nothing
is_relative_to(target, root) ==
    Len(target) >= Len(root) /\ SubSeq(target, 1, Len(root)) = root

\* _check_file_links_exist(links, project_root, issues): `existing` is the
\* set of absolute paths that exist
RECURSIVE check_file_links_exist(_, _, _)
check_file_links_exist(links, root, existing) ==
    IF links = <<>> THEN <<>>
    ELSE LET link == Head(links)
             rel == strip(link.value)
             target == resolve_under(root, rel)
         IN  (IF lower(strip(link.kind)) # <<"file">> THEN <<>>
              ELSE IF ~is_relative_to(target, root)
              THEN <<Issue("link_file_outside_project", 0, rel)>>
              ELSE IF target \notin existing
              THEN <<Issue("link_file_missing", 0, rel)>>
              ELSE <<>>)
             \o check_file_links_exist(Tail(links), root, existing)

\* validate_task_file(task, task_dir, expected_task_id, check_links,
\* project_root): the issues of the ValidationResult, in order
validate_task_file(t, expected_task_id, check_links, project_root, existing) ==
    (IF expected_task_id # None /\ t.task_id # expected_task_id
     THEN <<Issue("id_mismatch", 0, t.task_id)>> ELSE <<>>)
    \o (IF validate(t).exc # NoExc
        THEN <<Issue("model_invariant", 0, validate(t).msg)>> ELSE <<>>)
    \o (IF t.log_lines = <<>> THEN <<Issue("log_empty", 0, <<>>)>>
        ELSE log_format_issues(t.log_lines, 1))
    \o (IF t.status = DONE /\ t.log_lines # <<>> /\ ~has_done_marker(t.log_lines)
        THEN <<Issue("done_no_marker", 0, <<>>)>> ELSE <<>>)
    \o link_issues(t.links, 1)
    \o (IF ~check_links THEN <<>>
        ELSE IF project_root = None THEN <<Issue("links_need_project_root", 0, <<>>)>>
        ELSE check_file_links_exist(t.links, project_root, existing))

(***************************************************************************)
(* SpecIssues: validate_task_file called once on a Task whose log is any   *)
(* sequence of up to MaxLogLines of the lines below, with and without an   *)
(* expected id, link checking and a project root.                          *)
(***************************************************************************)
MaxLogLines == 2

\* log lines, each with what the log rules make of it: blank, refused by
\* the line pattern (bad), holding a "[done]" marker
LineCases ==
    <<[line |-> LogCreated, blank |-> FALSE, bad |-> FALSE, marker |-> FALSE],
      [line |-> <<"2024-01-01", " ", "[created]">>,
       blank |-> FALSE, bad |-> TRUE, marker |-> FALSE],
      [line |-> <<" ">>, blank |-> TRUE, bad |-> FALSE, marker |-> FALSE],
      [line |-> <<"2024-01-01", ":", " ", "[", "D", "o", "n", "e", "]">>,
       blank |-> FALSE, bad |-> TRUE, marker |-> TRUE],
      [line |-> <<"2024-01-01", ":", " ", "[done]", " ", "m">>,
       blank |-> FALSE, bad |-> FALSE, marker |-> TRUE],
      [line |-> <<"2024-01-01", ":", "[done]">>,
       blank |-> FALSE, bad |-> TRUE, marker |-> TRUE],
      [line |-> <<" ", "2024-01-02", ":", " ", " ", "[touch]", " ", "-", " ", "m", " ">>,
       blank |-> FALSE, bad |-> FALSE, marker |-> FALSE],
      [line |-> <<"2024-01-01", ":", " ", "[next]", "m">>,
       blank |-> FALSE, bad |-> TRUE, marker |-> FALSE],
      [line |-> <<"2024-01-01", ":", " ", "[touch]", " ", "m", "\n", "m">>,
       blank |-> FALSE, bad |-> TRUE, marker |-> FALSE],
      [line |-> <<"2024-99-99", ":", " ", "[", "a", "_", "b", "]", " ", "d", "o", "n", "e">>,
       blank |-> FALSE, bad |-> FALSE, marker |-> FALSE]>>

\* logs as sequences of indices into LineCases
RECURSIVE LogShapes(_)
LogShapes(n) ==
    IF n = 0 THEN {<<>>}
    ELSE LogShapes(n - 1)
            \cup {Append(l, i) : l \in {m \in LogShapes(n - 1) : Len(m) = n - 1},
                                 i \in DOMAIN LineCases}

LogOf(shape) == [i \in 1..Len(shape) |-> LineCases[shape[i]].line]

ProjectRoot == <<<<"r">>>>

\* the absolute paths that exist: the project root and one file in it
Existing == {ProjectRoot, Append(ProjectRoot, <<"f">>)}

\* links, each with what the file check makes of it under ProjectRoot:
\* "none", "outside" or "missing"
FileLinkCases ==
    <<[link |-> Link(<<"file">>, <<"f">>), verdict |-> "none"],
      [link |-> Link(<<"file">>, <<".", ".", "/", "x">>), verdict |-> "outside"],
      [link |-> Link(<<"file">>, <<"g">>), verdict |-> "missing"],
      [link |-> Link(<<"url">>, <<"u">>), verdict |-> "none"],
      [link |-> Link(<<" ", "File", " ">>, <<" ", "/", "r", "/", "f", " ">>),
       verdict |-> "none"],
      [link |-> Link(<<"file">>, <<"/", "o">>), verdict |-> "outside"],
      [link |-> Link(<<"file">>, <<"d", "/", ".", ".", "/", ".", ".", "/", "r", "/", "h">>),
       verdict |-> "missing"]>>

IssueLinks ==
    {<<>>,
     <<Link(<<"B", "a", "d">>, <<" ">>)>>,
     [i \in DOMAIN FileLinkCases |-> FileLinkCases[i].link]}

IssueTasks ==
    {Task(TheDir, <<"t">>, st, c, 1, IF st = DONE THEN <<>> ELSE <<"n">>,
          <<>>, LogOf(shape), links, 2) :
        st \in {ACTIVE, DONE}, c \in {1, 2}, shape \in LogShapes(MaxLogLines),
        links \in IssueLinks}

InitIssues ==
    /\ task \in IssueTasks
    /\ today = 1
    /\ store = NoStore
    /\ cur = TheDir
    /\ result = NoCall
    /\ prompts = 0
    /\ failed = FALSE
    /\ request = NoReq
    /\ snap = <<>>
    /\ writes = 0
    /\ call = NoArgs
    /\ tree = <<>>
    /\ ret = <<>>
    /\ pc = <<>>
    /\ mem = <<>>

\* validate_task_file(task, task_dir, expected_task_id=..., check_links=...,
\* project_root=...).issues
ValidateTaskFile(expected_task_id, check_links, project_root) ==
    /\ result.op = "none"
    /\ ret' = validate_task_file(task, expected_task_id, check_links,
                                 project_root, Existing)
    /\ result' = Call("validate_task_file", Returned)
    /\ call' = [expected_task_id |-> expected_task_id,
                check_links |-> check_links, project_root |-> project_root]
    /\ UNCHANGED <<today, store, cur, task, prompts, failed, request, snap, writes, tree, pc, mem>>

NextIssues ==
    \E e \in {None, TheDir, <<"o">>}, c \in BOOLEAN, r \in {None, ProjectRoot} :
        ValidateTaskFile(e, c, r)

SpecIssues == InitIssues /\ [][NextIssues]_vars

Validated == result.op = "validate_task_file"

IssuesOf(code) == {i \in 1..Len(ret) : ret[i].code = code}

\* what the log rules make of line i of the Task's log
CaseOf(i) ==
    LineCases[CHOOSE k \in DOMAIN LineCases : LineCases[k].line = task.log_lines[i]]

\* C19: validate_task_file reports one log_bad_format issue for each
\* non-blank log line that does not match "YYYY-MM-DD: [tag] optional-text",
\* naming the line's 1-based position, in line order, and none for the
\* other lines.
C19_LogBadFormat ==
    Validated =>
        LET bad == {i \in 1..Len(task.log_lines) : CaseOf(i).bad}
        IN  /\ {ret[k].n : k \in IssuesOf("log_bad_format")} = bad
            /\ Cardinality(IssuesOf("log_bad_format")) = Cardinality(bad)
            /\ \A j, k \in IssuesOf("log_bad_format") : j < k => ret[j].n < ret[k].n

\* the single line "2024-01-01 [created]" gives one issue, at line 1
C19_Witness ==
    /\ Validated
    /\ task.log_lines = <<<<"2024-01-01", " ", "[created]">>>>
    /\ task.status = ACTIVE
    /\ task.links = <<>>
    /\ call.expected_task_id = None
    /\ ~call.check_links
    /\ task.created = 1
    /\ ret = <<Issue("log_bad_format", 1, <<>>)>>

\* C20: validate_task_file reports done_no_marker exactly when the status
\* is done, the log is not empty and no log line contains "[done]" in any
\* letter case; it reports it at most once, whatever other issues it
\* reports.
C20_DoneNoMarker ==
    Validated =>
        /\ Cardinality(IssuesOf("done_no_marker")) <= 1
        /\ IssuesOf("done_no_marker") # {} <=>
              /\ task.status = DONE
              /\ task.log_lines # <<>>
              /\ \A i \in 1..Len(task.log_lines) : ~CaseOf(i).marker

\* reported together with id_mismatch, model_invariant and log_bad_format
C20_Witness ==
    /\ Validated
    /\ task.status = DONE
    /\ IssuesOf("done_no_marker") # {}
    /\ IssuesOf("id_mismatch") # {}
    /\ IssuesOf("model_invariant") # {}
    /\ IssuesOf("log_bad_format") # {}
    /\ IssuesOf("link_kind_invalid") # {}

\* the issues with this code that quote the value of link i
FileIssues(code, i) ==
    {k \in IssuesOf(code) : ret[k].text = strip(task.links[i].value)}

\* what the file check makes of link i of the Task
VerdictOf(i) ==
    FileLinkCases[CHOOSE k \in DOMAIN FileLinkCases :
                     FileLinkCases[k].link = task.links[i]].verdict

FileLinked == task.links = [i \in DOMAIN FileLinkCases |-> FileLinkCases[i].link]

\* C21: with check_links and a project_root, a file link whose value
\* resolves outside project_root gets link_file_outside_project and no
\* link_file_missing; one that resolves inside and does not exist gets
\* link_file_missing only; one that resolves inside and exists, and a link
\* of another kind, get neither.  With check_links and no project_root the
\* result holds links_need_project_root and neither file issue.  Without
\* check_links none of the three is reported.
C21_FileLinks ==
    Validated =>
        /\ result.exc = NoExc
        /\ (call.check_links /\ call.project_root # None /\ FileLinked) =>
              \A i \in 1..Len(task.links) :
                  /\ Cardinality(FileIssues("link_file_outside_project", i))
                        = IF VerdictOf(i) = "outside" THEN 1 ELSE 0
                  /\ Cardinality(FileIssues("link_file_missing", i))
                        = IF VerdictOf(i) = "missing" THEN 1 ELSE 0
        /\ (call.check_links /\ call.project_root # None) =>
              /\ IssuesOf("links_need_project_root") = {}
              /\ Cardinality(IssuesOf("link_file_outside_project")
                                \cup IssuesOf("link_file_missing"))
                    = IF FileLinked THEN 4 ELSE 0
        /\ (call.check_links /\ call.project_root = None) =>
              /\ Cardinality(IssuesOf("links_need_project_root")) = 1
              /\ IssuesOf("link_file_outside_project") = {}
              /\ IssuesOf("link_file_missing") = {}
        /\ ~call.check_links =>
              /\ IssuesOf("links_need_project_root") = {}
              /\ IssuesOf("link_file_outside_project") = {}
              /\ IssuesOf("link_file_missing") = {}

C21_Witness ==
    /\ Validated
    /\ call.check_links
    /\ call.project_root # None
    /\ FileLinked
    /\ \E k \in IssuesOf("link_file_outside_project") : ret[k].text = <<".", ".", "/", "x">>
    /\ \E k \in IssuesOf("link_file_missing") : ret[k].text = <<"g">>
    /\ task.log_lines = <<LogCreated>>

(***************************************************************************)
(* The default ordering of tasks (engine/model.py, sort_tasks)             *)
(***************************************************************************)

MaxTasks == 3

sort_key_done_first(status) ==
    CASE status = DONE -> 0
      [] status = ACTIVE -> 1
      [] status = WAITING -> 2
      [] status = PAUSED -> 3

\* Status.sort_key
sort_key(status) ==
    CASE status = ACTIVE -> 0
      [] status = WAITING -> 1
      [] status = PAUSED -> 2
      [] status = DONE -> 3

\* Task.status_rank
status_rank(t) == sort_key(t.status)

\* the characters of the task ids below, in code point order
CodePoints == <<"-", "0", "1", "9", "B", "_", "a", "b">>

ord(c) == CHOOSE i \in DOMAIN CodePoints : CodePoints[i] = c

RECURSIVE str_lt(_, _)
\* a < b on str: by code point, a proper prefix first
str_lt(a, b) ==
    IF b = <<>> THEN FALSE
    ELSE IF a = <<>> THEN TRUE
    ELSE IF ord(Head(a)) < ord(Head(b)) THEN TRUE
    ELSE IF ord(Head(a)) > ord(Head(b)) THEN FALSE
    ELSE str_lt(Tail(a), Tail(b))

\* the key of the lambda: (t.status_rank, t.last_touch, t.task_id)
sort_tasks_key(t) == <<status_rank(t), t.last_touch, t.task_id>>

\* k1 < k2 on the key tuples
key_lt(k1, k2) ==
    IF k1[1] # k2[1] THEN k1[1] < k2[1]
    ELSE IF k1[2] # k2[2] THEN k1[2] < k2[2]
    ELSE str_lt(k1[3], k2[3])

RECURSIVE insert_sorted(_, _)
\* put t behind every element whose key is not greater than its own
insert_sorted(sorted, t) ==
    IF sorted = <<>> THEN <<t>>
    ELSE IF key_lt(sort_tasks_key(t), sort_tasks_key(Head(sorted)))
         THEN <<t>> \o sorted
         ELSE <<Head(sorted)>> \o insert_sorted(Tail(sorted), t)

RECURSIVE sorted_from(_, _)
sorted_from(done, rest) ==
    IF rest = <<>> THEN done
    ELSE sorted_from(insert_sorted(done, Head(rest)), Tail(rest))

\* sort_tasks(tasks): sorted() is stable and builds a new list
sort_tasks(tasks) == sorted_from(<<>>, tasks)

SortTask(task_id, title, status, last_touch) ==
    Task(task_id, title, status, 0, last_touch,
         IF status = DONE THEN <<>> ELSE <<"n">>, <<>>, <<>>, <<>>, 2)

\* the tasks of one project; 1 and 2 have equal keys
SortPool ==
    <<SortTask(<<"a">>, <<"t">>, ACTIVE, 1),
      SortTask(<<"a">>, <<"u">>, ACTIVE, 1),
      SortTask(<<"b">>, <<"t">>, ACTIVE, 0),
      SortTask(<<"9">>, <<"t">>, WAITING, 0),
      SortTask(<<"1", "0">>, <<"t">>, WAITING, 0),
      SortTask(<<"a">>, <<"t">>, PAUSED, 0),
      SortTask(<<"a">>, <<"t">>, DONE, 0),
      SortTask(<<"B">>, <<"t">>, ACTIVE, 1)>>

SortInputs ==
    UNION {[1..n -> {SortPool[i] : i \in DOMAIN SortPool}] : n \in 0..MaxTasks}

InitSort ==
    /\ snap \in SortInputs
    /\ today = 1
    /\ store = NoStore
    /\ cur = TheDir
    /\ task = NoTask
    /\ result = NoCall
    /\ prompts = 0
    /\ failed = FALSE
    /\ request = NoReq
    /\ writes = 0
    /\ call = NoArgs
    /\ tree = <<>>
    /\ ret = <<>>
    /\ pc = <<>>
    /\ mem = <<>>

\* sort_tasks(tasks) on the list the caller holds
SortTasks ==
    /\ result.op = "none"
    /\ ret' = sort_tasks(snap)
    /\ result' = Call("sort_tasks", Returned)
    /\ UNCHANGED <<today, store, cur, task, prompts, failed, request, snap, writes, call, tree, pc, mem>>

NextSort == SortTasks

SpecSort == InitSort /\ [][NextSort]_vars

Sorted == result.op = "sort_tasks"

\* the ranks the ordering gives the statuses
RankOf(status) ==
    CASE status = "active" -> 0
      [] status = "waiting" -> 1
      [] status = "paused" -> 2
      [] status = "done" -> 3

\* the task ids of the pool in ascending order
IdsAscending == <<<<"1", "0">>, <<"9">>, <<"B">>, <<"a">>, <<"b">>>>

IdRank(task_id) == CHOOSE i \in DOMAIN IdsAscending : IdsAscending[i] = task_id

SameKey(a, b) ==
    /\ a.status = b.status
    /\ a.last_touch = b.last_touch
    /\ a.task_id = b.task_id

\* a comes strictly before b in the stated order
Before(a, b) ==
    \/ RankOf(a.status) < RankOf(b.status)
    \/ RankOf(a.status) = RankOf(b.status) /\ a.last_touch < b.last_touch
    \/ /\ RankOf(a.status) = RankOf(b.status)
       /\ a.last_touch = b.last_touch
       /\ IdRank(a.task_id) < IdRank(b.task_id)

\* C22: sort_tasks returns a new sequence that is a permutation of its
\* input, in ascending order of (status rank with active 0 < waiting 1 <
\* paused 2 < done 3, last_touch, task_id); tasks with equal keys keep
\* their input order; the input is left as it was.
C22_SortTasks ==
    [][SortTasks =>
        /\ snap' = snap
        /\ Len(ret') = Len(snap)
        /\ \E pi \in [DOMAIN snap -> DOMAIN snap] :
              /\ \A i, j \in DOMAIN snap : i # j => pi[i] # pi[j]
              /\ \A i \in DOMAIN snap : ret'[i] = snap[pi[i]]
              /\ \A i, j \in DOMAIN snap :
                    (i < j /\ SameKey(ret'[i], ret'[j])) => pi[i] < pi[j]
        /\ \A i, j \in DOMAIN ret' :
              i < j => (Before(ret'[i], ret'[j]) \/ SameKey(ret'[i], ret'[j]))]_vars

C22_Witness ==
    /\ Sorted
    /\ snap = <<SortPool[7], SortPool[2], SortPool[1]>>
    /\ ret[1] = SortPool[2]
    /\ ret[2] = SortPool[1]
    /\ ret[Len(ret)] = SortPool[7]

(***************************************************************************)
(* The validate command (cli.py, cmd_validate) over the task discovery of  *)
(* the scanner (engine/scan.py, iter_task_files)                           *)
(*                                                                         *)
(* In SpecPass `tree` is the directory tree below the root the command is  *)
(* given, and `store` maps the root directory of each project to its       *)
(* .tasks directory.  Every listing succeeds.                              *)
(***************************************************************************)
TaskFile(project, task_id) == [project |-> project, task_id |-> task_id]

OtherDir == <<"2024-01-01", "_", "_", "0", "0", "2", "_", "_", "t">>

\* the order in which iterdir() hands out the task directories
TaskListingOrder == <<TheDir, OtherDir>>

RECURSIVE iter_task_entries(_, _, _)
\* the loop of iter_task_files over the entries of tasks_dir
iter_task_entries(fs, project, i) ==
    IF i > Len(TaskListingOrder) THEN <<>>
    ELSE LET name == TaskListingOrder[i]
             own == IF name \notin DOMAIN fs.entries THEN <<>>
                    ELSE IF ~is_dir(fs, name) THEN <<>>
                    ELSE IF is_file(fs.entries[name].yml) /\ is_file(fs.entries[name].log)
                         THEN <<TaskFile(project, name)>>
                         ELSE <<>>
         IN  own \o iter_task_entries(fs, project, i + 1)

\* iter_task_files(project) on the .tasks directory fs of the project
iter_task_files(fs, project) ==
    IF ~fs.exists THEN <<>> ELSE iter_task_entries(fs, project, 1)

\* the absolute path of a directory of the tree: (base / cd).resolve()
\* is /r
resolved_root(d) == <<<<"r">>>> \o [i \in 1..Len(d) |-> <<d[i]>>]

\* what one pass has printed and found so far
PassState(printed, had_errors, exc) ==
    [printed |-> printed, had_errors |-> had_errors, exc |-> exc]

\* cli.py lines 318-322: a task with issues is reported
after_validate(issues, tf, acc) ==
    IF issues = <<>> THEN acc
    ELSE PassState(Append(acc.printed, [project |-> tf.project.root_dir, task_id |-> tf.task_id]),
                   TRUE, NoExc)

\* cli.py lines 304-316: a ParseError is reported and the loop goes on;
\* any other exception leaves the loops
after_parse(parsed, tf, check_links, existing, acc) ==
    IF parsed.exc = "ParseError"
    THEN PassState(Append(acc.printed, [project |-> tf.project.root_dir, task_id |-> tf.task_id]),
                   TRUE, NoExc)
    ELSE IF parsed.exc # NoExc
    THEN PassState(acc.printed, acc.had_errors, parsed.exc)
    ELSE after_validate(validate_task_file(parsed.value, tf.task_id, check_links,
                                           resolved_root(tf.project.root_dir), existing),
                        tf, acc)

RECURSIVE validate_task_files(_, _, _, _, _)
\* the body of the two loops of cmd_validate over the task files of all
\* projects in order (cli.py lines 303-323)
validate_task_files(stores, tfs, check_links, existing, acc) ==
    IF tfs = <<>> \/ acc.exc # NoExc THEN acc
    ELSE validate_task_files(stores, Tail(tfs), check_links, existing,
             after_parse(parse_task(stores[Head(tfs).project.root_dir],
                                    Head(tfs).task_id, Head(tfs).task_id),
                         Head(tfs), check_links, existing, acc))

RECURSIVE task_files_of(_, _)
\* the TaskFiles of the projects, project by project
task_files_of(stores, projects) ==
    IF projects = <<>> THEN <<>>
    ELSE iter_task_files(stores[Head(projects).root_dir], Head(projects))
             \o task_files_of(stores, Tail(projects))

\* cli.py line 325, or the exception that ended the loops
pass_result(end) ==
    IF end.exc # NoExc
    THEN [printed |-> end.printed, out |-> Raise(end.exc, <<>>)]
    ELSE [printed |-> end.printed, out |-> Ok(IF end.had_errors THEN 1 ELSE 0)]

\* cmd_validate(args): what it printed, and the value returned or the
\* exception that ended it
cmd_validate(t, stores, level, check_links, existing) ==
    pass_result(validate_task_files(stores, task_files_of(stores, iter_projects(t, level)),
                                    check_links, existing, PassState(<<>>, FALSE, NoExc)))

(***************************************************************************)
(* SpecPass: cmd_validate run once on a tree with two projects, the root   *)
(* and the directory a below it.                                           *)
(***************************************************************************)
PassTree == TreeOf({<<TASKS>>, <<"a">>, <<"a", TASKS>>}, {}, {})

PassMeta(id, created, last_touch, links) ==
    File(Y_map(Y_str(id), Y_str(<<"t">>), Y_str(<<ACTIVE>>), Y_str(isoformat(created)),
               Y_str(isoformat(last_touch)), Y_str(<<"n">>), Y_int(2), links))

\* what a task directory named id may hold, each with what a pass makes of
\* it: "ok", "issue", "link" (an issue only when links are checked),
\* "parse" (the parser refuses a file), "invariant" (the stored fields
\* break the model invariant), "skip" (not a task candidate)
PassCases(id) ==
    <<[dir |-> TaskDir(PassMeta(id, 1, 1, Y_list(<<>>)), File(LogCreated \o <<"\n">>), NoFile),
       is |-> "ok"],
      [dir |-> TaskDir(PassMeta(id, 1, 1, Y_list(<<>>)), File(<<"x", "\n">>), NoFile),
       is |-> "issue"],
      [dir |-> TaskDir(PassMeta(id, 1, 1, Y_list(<<Y_str(<<"g">>)>>)),
                       File(LogCreated \o <<"\n">>), NoFile),
       is |-> "link"],
      [dir |-> TaskDir(File([t |-> "invalid"]), File(LogCreated \o <<"\n">>), NoFile),
       is |-> "parse"],
      [dir |-> TaskDir(PassMeta(id, 2, 1, Y_list(<<>>)), File(LogCreated \o <<"\n">>), NoFile),
       is |-> "invariant"],
      [dir |-> TaskDir(PassMeta(id, 1, 1, Y_list(<<>>)), NoFile, NoFile),
       is |-> "skip"],
      [dir |-> PlainFile, is |-> "skip"]>>

PassStoresOver(names) ==
    {StoreOf(entries) :
        entries \in UNION {[present -> 1..7] : present \in SUBSET names}}

\* a store of case numbers made a store of directories
PassStore(cases) ==
    StoreOf([name \in DOMAIN cases.entries |-> PassCases(name)[cases.entries[name]].dir])

PassExisting == {<<<<"r">>>>, <<<<"r">>, <<"a">>>>}

InitPass ==
    /\ tree = PassTree
    /\ \E root \in PassStoresOver({TheDir, OtherDir}), a \in PassStoresOver({TheDir}) :
          store = (<<>> :> PassStore(root)) @@ (<<"a">> :> PassStore(a))
    /\ today = 1
    /\ cur = <<>>
    /\ task = NoTask
    /\ result = NoCall
    /\ prompts = 0
    /\ failed = FALSE
    /\ request = NoReq
    /\ snap = <<>>
    /\ writes = 0
    /\ call = NoArgs
    /\ ret = <<>>
    /\ pc = <<>>
    /\ mem = <<>>

\* tskctl validate --level level [--check-links]
CmdValidate(level, check_links) ==
    /\ result.op = "none"
    /\ LET r == cmd_validate(tree, store, level, check_links, PassExisting) IN
          /\ ret' = r.printed
          /\ result' = [op |-> "cmd_validate", exc |-> r.out.exc, msg |-> <<>>,
                        code |-> IF r.out.exc = NoExc THEN r.out.value ELSE None]
    /\ call' = [level |-> level, check_links |-> check_links]
    /\ UNCHANGED <<today, store, cur, task, prompts, failed, request, snap, writes, tree, pc, mem>>

NextPass == \E level \in 0..1, check_links \in BOOLEAN : CmdValidate(level, check_links)

SpecPass == InitPass /\ [][NextPass]_vars

PassDone == result.op = "cmd_validate"

\* what the pass makes of the entry `name` of project `d`
PassCaseOf(d, name) ==
    LET cases == PassCases(name) IN
    cases[CHOOSE k \in DOMAIN cases : cases[k].dir = store[d].entries[name]].is

\* the task candidates of the projects within the level
Candidates ==
    {c \in {<<>>, <<"a">>} \X {TheDir, OtherDir} :
        /\ Len(c[1]) <= call.level
        /\ c[2] \in DOMAIN store[c[1]].entries
        /\ PassCaseOf(c[1], c[2]) # "skip"}

\* the candidate fails to parse or has a validation issue
Faulty(c) ==
    \/ PassCaseOf(c[1], c[2]) \in {"issue", "parse", "invariant"}
    \/ PassCaseOf(c[1], c[2]) = "link" /\ call.check_links

Reported == {<<ret[i].project, ret[i].task_id>> : i \in 1..Len(ret)}

\* C23: a validate pass handles every task candidate: it ends by returning
\* a result, each candidate that fails to parse (a model-invariant
\* violation in its stored fields included) or has a validation issue is
\* reported and no other is, and the result is non-zero exactly when some
\* candidate was reported.
C23_PassContinues ==
    PassDone =>
        /\ result.exc = NoExc
        /\ Reported = {c \in Candidates : Faulty(c)}
        /\ (result.code # 0) <=> (\E c \in Candidates : Faulty(c))

\* a task whose stored fields break the model invariant ends the pass: the
\* task after it in the same project and the task of the next project,
\* both with issues, are never reported
C23_Witness ==
    /\ PassDone
    /\ call.level = 1
    /\ TheDir \in DOMAIN store[<<>>].entries
    /\ PassCaseOf(<<>>, TheDir) = "invariant"
    /\ OtherDir \in DOMAIN store[<<>>].entries
    /\ PassCaseOf(<<>>, OtherDir) = "issue"
    /\ TheDir \in DOMAIN store[<<"a">>].entries
    /\ PassCaseOf(<<"a">>, TheDir) = "parse"
    /\ result.exc = "ValueError"
    /\ ret = <<>>

(***************************************************************************)
(* Commands as processes: write_task file by file                          *)
(*                                                                         *)
(* A process runs one command of cli.py on the task directory: it loads    *)
(* the Task with parse_task, applies one action to the Task object, and    *)
(* write_task then writes the three files one after the other.  A process  *)
(* may stop between two writes.  `pc` is the position of each process,     *)
(* `mem` what it holds in memory, and `writes` lists the file writes made, *)
(* in order.  Nothing in the code takes a lock or compares versions, so    *)
(* the steps of two processes interleave freely.                           *)
(***************************************************************************)
write_task_order_log_first == <<"task.log", "task.yml", "summary.md">>

\* the files write_task writes, in the order it writes them
write_task_order == <<"task.yml", "task.log", "summary.md">>

write_task_file_append_log(fs, d, t, name) ==
    LET old == fs.entries[d] IN
    CASE name = "task.yml" ->
            put(fs, d, [old EXCEPT !.yml =
                File(render_task_yml(t.task_id, t.title, t.status,
                                     isoformat(t.created), isoformat(t.last_touch),
                                     t.next_action, t.links, 2))])
      [] name = "task.log" ->
            put(fs, d, [old EXCEPT !.log =
                File(old.log.data \o t.log_lines[Len(t.log_lines)] \o <<"\n">>)])
      [] name = "summary.md" ->
            put(fs, d, [old EXCEPT !.summary = write_summary(old.summary, t.summary)])

\* one of the three writes of write_task(task_dir, task): write_text
\* replaces the whole file
write_task_file(fs, d, t, name) ==
    LET old == fs.entries[d] IN
    CASE name = "task.yml" ->
            put(fs, d, [old EXCEPT !.yml =
                File(render_task_yml(t.task_id, t.title, t.status,
                                     isoformat(t.created), isoformat(t.last_touch),
                                     t.next_action, t.links, 2))])
      [] name = "task.log" ->
            put(fs, d, [old EXCEPT !.log = File(log_text(t.log_lines))])
      [] name = "summary.md" ->
            put(fs, d, [old EXCEPT !.summary = write_summary(old.summary, t.summary)])

Proc(old, new, written, alive, clean) ==
    [old |-> old, new |-> new, written |-> written, alive |-> alive, clean |-> clean]

\* the commands a process may run, with the arguments it passes; no line
\* is typed at a prompt
ProcCommands ==
    {[op |-> "set_status", status |-> <<DONE>>, message |-> <<"m">>, next_action |-> None],
     [op |-> "set_status", status |-> <<WAITING>>, message |-> <<"k">>, next_action |-> <<"n">>],
     [op |-> "set_next_action", status |-> None, message |-> <<"m">>, next_action |-> <<"o">>],
     [op |-> "touch_task", status |-> None, message |-> <<"k">>, next_action |-> None],
     [op |-> "touch_task", status |-> None, message |-> <<" ">>, next_action |-> None]}

\* the action of the command applied to the Task object t
run_action(t, fs, d, day, c) ==
    CASE c.op = "set_status" ->
            set_status(t, fs, d, day, c.status, c.message, c.next_action, <<EOF, EOF>>)
      [] c.op = "set_next_action" ->
            set_next_action(t, fs, d, day, c.next_action, c.message, <<EOF, EOF>>)
      [] c.op = "touch_task" ->
            touch_task(t, fs, d, day, c.message, <<EOF, EOF>>)

ProcStores ==
    {fs \in {put(StoreOf(<<>>), TheDir, dir) : dir \in StoredDirs} :
        /\ parse_task(fs, TheDir, TheDir).exc = NoExc
        /\ parse_task(fs, TheDir, TheDir).value.created = 1}

InitProcs(names) ==
    /\ today \in Days
    /\ store \in ProcStores
    /\ cur = TheDir
    /\ task = NoTask
    /\ result = NoCall
    /\ prompts = 0
    /\ failed = FALSE
    /\ request = NoReq
    /\ snap = <<>>
    /\ writes = <<>>
    /\ call = NoArgs
    /\ tree = <<>>
    /\ ret = <<>>
    /\ pc = [p \in names |-> "start"]
    /\ mem = [p \in names |-> Proc(NoTask, NoTask, 0, TRUE, TRUE)]

InitCrash == InitProcs({"A"})

InitRace == InitProcs({"A", "B"})

\* _choose_task: the command loads the Task with parse_task
LoadP(p) ==
    /\ pc[p] = "start"
    /\ LET parsed == parse_task(store, cur, cur) IN
          IF parsed.exc # NoExc
          THEN /\ pc' = [pc EXCEPT ![p] = "failed"]
               /\ mem' = mem
          ELSE /\ pc' = [pc EXCEPT ![p] = "loaded"]
               /\ mem' = [mem EXCEPT ![p] = Proc(parsed.value, NoTask, 0, TRUE, writes = <<>>)]
    /\ UNCHANGED <<today, store, cur, task, result, prompts, failed, request, snap, writes, call, tree, ret>>

\* the action up to its call of _write: the Task object is changed in
\* memory, or a ValidationError ends the command
ActP(p, c) ==
    /\ pc[p] = "loaded"
    /\ LET o == run_action(mem[p].old, store, cur, today, c) IN
          IF o.out.exc # NoExc
          THEN /\ pc' = [pc EXCEPT ![p] = "failed"]
               /\ mem' = mem
          ELSE /\ pc' = [pc EXCEPT ![p] = "writing"]
               /\ mem' = [mem EXCEPT ![p].new = o.task]
    /\ UNCHANGED <<today, store, cur, task, result, prompts, failed, request, snap, writes, call, tree, ret>>

\* the next write of write_task
WriteP(p) ==
    /\ pc[p] = "writing"
    /\ mem[p].alive
    /\ is_dir(store, cur)
    /\ LET name == write_task_order[mem[p].written + 1] IN
          /\ store' = write_task_file(store, cur, mem[p].new, name)
          /\ writes' = Append(writes, [p |-> p, file |-> name])
    /\ mem' = [mem EXCEPT ![p].written = @ + 1]
    /\ pc' = [pc EXCEPT ![p] = IF mem[p].written + 1 = Len(write_task_order)
                                 THEN "done" ELSE "writing"]
    /\ UNCHANGED <<today, cur, task, result, prompts, failed, request, snap, call, tree, ret>>

\* the process stops before its next write
StopP(p) ==
    /\ pc[p] = "writing"
    /\ mem[p].alive
    /\ mem' = [mem EXCEPT ![p].alive = FALSE]
    /\ UNCHANGED <<today, store, cur, task, result, prompts, failed, request, snap, writes, call, tree, ret, pc>>

NextProcs ==
    \E p \in DOMAIN pc :
        \/ LoadP(p)
        \/ \E c \in ProcCommands : ActP(p, c)
        \/ WriteP(p)
        \/ StopP(p)

SpecCrash == InitCrash /\ [][NextProcs]_vars

SpecRace == InitRace /\ [][NextProcs]_vars

\* the lines of task.log on disk
LogOnDisk == log_lines_of(store.entries[cur].log.data)

\* task.yml on disk shows the status, last_touch and next_action of t
ShowsFieldsOf(t) ==
    /\ MetaOnDisk.status = Y_str(<<t.status>>)
    /\ MetaOnDisk.last_touch = Y_str(<<IsoDates[t.last_touch]>>)
    /\ MetaOnDisk.next_action = Y_str(t.next_action)

\* the log entry the action of process p added
EntryAdded(p) == mem[p].new.log_lines[Len(mem[p].new.log_lines)]

Persisting(p) == pc[p] \in {"writing", "done"}

\* C24: write_task writes task.yml, then task.log, then summary.md.
\* Whether or not the process stops, after the first write task.yml shows
\* the action's new status, last_touch and next_action while task.log
\* still holds the old entries only; task.log holds the new entry only
\* when task.yml already shows the new fields.
C24_WriteOrder ==
    \A p \in DOMAIN pc :
        Persisting(p) =>
            /\ Len(mem[p].new.log_lines) = Len(mem[p].old.log_lines) + 1
            /\ mem[p].written = 0 => LogOnDisk = mem[p].old.log_lines
            /\ mem[p].written = 1 =>
                  /\ ShowsFieldsOf(mem[p].new)
                  /\ LogOnDisk = mem[p].old.log_lines
                  /\ writes = <<[p |-> p, file |-> "task.yml"]>>
            /\ mem[p].written >= 2 =>
                  /\ ShowsFieldsOf(mem[p].new)
                  /\ LogOnDisk = Append(mem[p].old.log_lines, EntryAdded(p))
            /\ LogOnDisk # mem[p].old.log_lines => ShowsFieldsOf(mem[p].new)

C24_Witness ==
    /\ pc["A"] = "writing"
    /\ ~mem["A"].alive
    /\ mem["A"].written = 1
    /\ mem["A"].old.status = ACTIVE
    /\ MetaOnDisk.status = Y_str(<<DONE>>)
    /\ MetaOnDisk.next_action = Y_str(<<>>)
    /\ MetaOnDisk.last_touch = Y_str(<<"2024-01-02">>)
    /\ LogOnDisk = <<LogCreated>>

\* both processes loaded the task before any write was made, and each has
\* performed one successful action and written it
BothWrote ==
    /\ DOMAIN pc = {"A", "B"}
    /\ \A p \in DOMAIN pc : pc[p] = "done" /\ mem[p].clean

\* the process that made the last write of the file
LastWriterOf(file) ==
    writes[CHOOSE i \in DOMAIN writes :
              /\ writes[i].file = file
              /\ \A j \in DOMAIN writes : writes[j].file = file => j <= i].p

\* the process whose write_task ended last
LastToEnd == writes[Len(writes)].p

\* one write_task ended before the other began
OneAfterTheOther == writes[1].p = writes[2].p /\ writes[2].p = writes[3].p

\* the files hold what process w wrote: its fields, and the original
\* entries plus its entry only
HoldsWriteOf(w) ==
    /\ ShowsFieldsOf(mem[w].new)
    /\ LogOnDisk = Append(mem[w].old.log_lines, EntryAdded(w))

\* C25 as stated: when both processes load before either writes and each
\* performs one successful action, the write_task that ends last has
\* overwritten task.yml and task.log: the files show its fields and the
\* original entries plus its entry only.
C25_LastWriteWinsAsStated == BothWrote => HoldsWriteOf(LastToEnd)

\* C25: when both processes load before either writes and each performs
\* one successful action, task.log holds the original entries plus only
\* the entry of the process that wrote task.log last, and task.yml shows
\* the fields of the process that wrote task.yml last.  When one
\* write_task ended before the other began, both files are those of the
\* later one and the entry and field changes of the earlier one are lost;
\* when the two overlap, the files may come from different processes.
C25_Race ==
    BothWrote =>
        /\ mem["A"].old = mem["B"].old
        /\ Len(LogOnDisk) = Len(mem["A"].old.log_lines) + 1
        /\ LogOnDisk = Append(mem["A"].old.log_lines, EntryAdded(LastWriterOf("task.log")))
        /\ ShowsFieldsOf(mem[LastWriterOf("task.yml")].new)
        /\ OneAfterTheOther => HoldsWriteOf(LastToEnd)

\* the two write_task calls overlap: task.yml is B's (done), task.log is
\* A's (a touch entry)
C25_Witness ==
    /\ BothWrote
    /\ ~OneAfterTheOther
    /\ LastWriterOf("task.yml") = "B"
    /\ LastWriterOf("task.log") = "A"
    /\ MetaOnDisk.status = Y_str(<<DONE>>)
    /\ mem["A"].new.status = ACTIVE
    /\ LogOnDisk = <<LogCreated, <<"2024-01-02", ":", " ", "[touch]", " ", "-", " ", "k">>>>

(***************************************************************************)
(* SpecCycle: a stored task is loaded with parse_task, written back with   *)
(* write_task and loaded again.                                            *)
(***************************************************************************)
CycleFormats == {Y_int(1), Y_int(2), Y_int(3), Y_missing, Y_str(<<"2">>)}

CycleLinks ==
    {Y_missing,
     Y_list(<<Y_str(<<"U", ":", " ", "u", " ">>),
              Y_link(Y_str(<<" ", "File", " ">>), Y_str(<<" ", "x", " ">>)),
              Y_str(<<" ">>)>>)}

CycleLogs ==
    {File(LogCreated \o <<"\n">>),
     File(<<" ", "\n">> \o LogCreated \o <<" ", "\n", "\n", " ">> \o LogTouch)}

CycleSummaries == {NoFile, File(<<" ", "\n">>), File(<<" ", "s", " ", "\n", "s", "\n", "\n">>)}

CycleDirs ==
    {TaskDir(File(Y_map(Y_str(TheDir), Y_str(title), Y_str(st), Y_str(isoformat(1)),
                        Y_str(isoformat(l)), Y_str(na), format, links)),
             log, summary) :
        title \in {<<"t">>, <<" ", "t", " ">>},
        st \in {<<ACTIVE>>, <<DONE>>, <<" ", "Done", " ">>},
        l \in Days, na \in {<<>>, <<" ">>, <<"n">>, <<" ", "n", " ">>},
        format \in CycleFormats, links \in CycleLinks,
        log \in CycleLogs, summary \in CycleSummaries}

InitCycle ==
    /\ store \in {put(StoreOf(<<>>), TheDir, dir) : dir \in CycleDirs}
    /\ today = 1
    /\ cur = TheDir
    /\ task = NoTask
    /\ result = NoCall
    /\ prompts = 0
    /\ failed = FALSE
    /\ request = NoReq
    /\ snap = <<>>
    /\ writes = 0
    /\ call = NoArgs
    /\ tree = <<>>
    /\ ret = <<>>
    /\ pc = <<>>
    /\ mem = <<>>

\* parse_task(dir)
CycleParse ==
    /\ result.op \in {"none", "write_task"}
    /\ LET p == parse_task(store, cur, None) IN
        /\ task' = IF p.exc = NoExc THEN p.value ELSE NoTask
        /\ snap' = IF p.exc = NoExc THEN Append(snap, p.value) ELSE snap
        /\ result' = Call("parse_task", p)
    /\ UNCHANGED <<today, store, cur, prompts, failed, request, writes, call, tree, ret, pc, mem>>

\* write_task(dir, t) with the Task just parsed
CycleWrite ==
    /\ result.op = "parse_task"
    /\ result.exc = NoExc
    /\ writes = 0
    /\ LET w == write_task(store, cur, task) IN
        /\ store' = w.fs
        /\ result' = Call("write_task", w.out)
    /\ writes' = 1
    /\ UNCHANGED <<today, cur, task, prompts, failed, request, snap, call, tree, ret, pc, mem>>

NextCycle == CycleParse \/ CycleWrite

SpecCycle == InitCycle /\ [][NextCycle]_vars

\* the directory has been loaded, written back and loaded again
Cycled == writes = 1 /\ result.op = "parse_task"

\* C26: for every Task t that parse_task returns, parse_task after
\* write_task(dir, t) returns a Task equal to t in every field,
\* format_version included.
C26_LoadWriteLoad ==
    Cycled =>
        /\ result.exc = NoExc
        /\ Len(snap) = 2
        /\ snap[2] = snap[1]

\* a task stored with format 1 comes back with format 2, all else equal
C26_Witness ==
    /\ Cycled
    /\ Len(snap) = 2
    /\ snap[1].format_version = 1
    /\ snap[2].format_version = 2
    /\ snap[2] = [snap[1] EXCEPT !.format_version = 2]
    /\ MetaOnDisk.format = Y_int(2)

\* C27: after a successful set_status, set_next_action or touch_task, on
\* any Task that parse_task returned and whatever date today returns, the
\* Task still has created <= last_touch and the rest of the model
\* invariant, and parse_task accepts the files the action wrote.
C27_ActionsKeepInvariant ==
    (result.op \in ActionOps /\ result.exc = NoExc) =>
        /\ task.created <= task.last_touch
        /\ task.status = DONE <=> strip(task.next_action) = <<>>
        /\ parse_task(store, cur, cur).exc = NoExc

\* a task created on 2024-01-02 is touched when today returns 2024-01-01:
\* the action succeeds and the directory no longer loads
C27_Witness ==
    /\ result.op = "touch_task"
    /\ result.exc = NoExc
    /\ today = 1
    /\ task.created = 2
    /\ task.last_touch = 1
    /\ MetaOnDisk.created = Y_str(<<"2024-01-02">>)
    /\ MetaOnDisk.last_touch = Y_str(<<"2024-01-01">>)
    /\ parse_task(store, cur, cur) = Raise("ValueError", <<"created must be <= last_touch">>)

\* C28: the directory a successful create_task made is accepted by
\* parse_task with expected_task_id = the directory's name, whatever title,
\* status and next_action the request holds.
C28_CreatedLoads ==
    (result.op = "create_task" /\ result.exc = NoExc) =>
        parse_task(store, cur, cur).exc = NoExc

\* a request with a blank title, and one for an active task with a blank
\* next_action, are written out and then refused
C28_Witness ==
    /\ result.op = "create_task"
    /\ result.exc = NoExc
    /\ is_dir(store, cur)
    /\ \/ /\ request.title = <<" ">>
          /\ request.next_action = <<"n">>
          /\ parse_task(store, cur, cur).exc = "ParseError"
       \/ /\ request.title = <<"t">>
          /\ request.status = ACTIVE
          /\ request.next_action = <<>>
          /\ parse_task(store, cur, cur).exc = "ValueError"

(***************************************************************************)
(* SpecLog: a task is made by create_task, loaded, and changed by actions  *)
(* whose messages and next actions are single lines; validate_task_file is *)
(* run on the Task at any point.                                           *)
(***************************************************************************)
LogRequests ==
    {NewTaskRequest(<<"t">>, st, <<"n">>, <<>>, <<>>) : st \in Status}

InitLog ==
    /\ request \in LogRequests
    /\ store = StoreOf(<<>>)
    /\ today \in Days
    /\ cur = <<>>
    /\ task = NoTask
    /\ result = NoCall
    /\ prompts = 0
    /\ failed = FALSE
    /\ snap = <<>>
    /\ writes = 0
    /\ call = NoArgs
    /\ tree = <<>>
    /\ ret = <<>>
    /\ pc = <<>>
    /\ mem = <<>>

\* a command loads the directory create_task made
LoadCreated == cur # <<>> /\ Load

\* validate_task_file(task, task_dir, expected_task_id=<directory name>)
\* on the Task a command holds
ValidateHeld ==
    /\ task # NoTask
    /\ ~failed
    /\ result.op # "validate_task_file"
    /\ ret' = validate_task_file(task, cur, FALSE, None, {})
    /\ result' = Call("validate_task_file", Returned)
    /\ UNCHANGED <<today, store, cur, task, prompts, failed, request, snap, writes, call, tree, pc, mem>>

\* the arguments and typed lines of the actions: single lines
LogStatusArgs == {<<ACTIVE>>, <<WAITING>>, <<DONE>>}
LogMessageArgs == {None, <<" ", "m", " ">>}
LogInputs == {<<EOF, EOF>>, <<<<"m", " ">>, EOF>>}

NextLog ==
    \/ CreateTask(FALSE, EOF)
    \/ LoadCreated
    \/ \E st \in LogStatusArgs, m \in LogMessageArgs, ins \in LogInputs :
          SetStatus(st, m, <<"n", " ">>, ins)
    \/ \E m \in LogMessageArgs, ins \in LogInputs :
          SetNextAction(<<"n", " ">>, m, ins)
    \/ \E m \in LogMessageArgs, ins \in LogInputs : TouchTask(m, ins)
    \/ Tick
    \/ ValidateHeld

SpecLog == InitLog /\ [][NextLog]_vars

\* the line holds the entry tag as written by the core
HasTag(line, tag) == \E i \in 1..Len(line) : line[i] = tag

\* C29: for a task made by create_task and changed by successful actions
\* with single-line messages and next actions, validate_task_file reports
\* no log_empty, no log_bad_format and no done_no_marker, at any point;
\* whenever the status is done the log holds a "[done]" entry.
C29_CoreLogPasses ==
    /\ (task # NoTask /\ ~failed /\ task.status = DONE) =>
          \E i \in 1..Len(task.log_lines) : HasTag(task.log_lines[i], "[done]")
    /\ Validated =>
          /\ IssuesOf("log_empty") = {}
          /\ IssuesOf("log_bad_format") = {}
          /\ IssuesOf("done_no_marker") = {}

C29_Witness ==
    /\ Validated
    /\ ret = <<>>
    /\ request.status = WAITING
    /\ task.status = DONE
    /\ Len(task.log_lines) = 3
    /\ HasTag(task.log_lines[2], "[next]")
    /\ task.log_lines[3] = <<"2024-01-02", ":", " ", "[done]", " ", "m">>

(***************************************************************************)
(* SpecMany: one process makes tasks one after the other with create_task  *)
(* in a store that holds only directories; the date may change between     *)
(* two calls.  `snap` lists the directories made, in order.                *)
(***************************************************************************)
MaxCreates == 3

\* directories the store may hold at the start
ManyNames ==
    {SeqName(1, <<"0", "0", "1">>, <<"t">>),
     SeqName(1, <<"9", "9", "9">>, <<"t">>),
     SeqName(1, <<"-", "2">>, <<"t">>),
     SeqName(1, <<"0", "0", "2">>, <<>>)}

ManyStores ==
    {StoreOf([n \in names |-> OlderDir]) : names \in SUBSET ManyNames}

ManyTitles == {<<"t">>, <<"!">>}

InitMany ==
    /\ store \in ManyStores
    /\ today \in Days
    /\ cur = <<>>
    /\ task = NoTask
    /\ result = NoCall
    /\ prompts = 0
    /\ failed = FALSE
    /\ request = NoReq
    /\ snap = <<>>
    /\ writes = 0
    /\ call = NoArgs
    /\ tree = <<>>
    /\ ret = <<>>
    /\ pc = <<>>
    /\ mem = <<>>

\* create_task(cwd, req, interactive=False)
CreateNext(req) ==
    /\ Len(snap) < MaxCreates
    /\ LET c == create_task(store, req, today, FALSE, EOF) IN
        /\ store' = c.fs
        /\ cur' = c.dir
        /\ result' = Call("create_task", c.out)
        /\ snap' = IF c.out.exc = NoExc THEN Append(snap, c.dir) ELSE snap
    /\ request' = req
    /\ UNCHANGED <<today, task, prompts, failed, writes, call, tree, ret, pc, mem>>

\* date.today() returns another date from now on
ClockTo(day) ==
    /\ day # today
    /\ today' = day
    /\ UNCHANGED <<store, cur, task, result, prompts, failed, request, snap, writes, call, tree, ret, pc, mem>>

NextMany ==
    \/ \E title \in ManyTitles :
          CreateNext(NewTaskRequest(title, ACTIVE, <<"n">>, <<>>, <<>>))
    \/ \E day \in Days : ClockTo(day)

SpecMany == InitMany /\ [][NextMany]_vars

\* the date and the sequence number in the name of a created directory
DateOfId(id) == id[1]

SeqOfId(id) == nat_of(second_segment(id))

\* C30: in a store that holds only directories, every create_task call of
\* one process succeeds without reaching the collision failure, the ids
\* of the directories made are pairwise distinct, and among those made for
\* the same date the sequence numbers increase strictly in creation order,
\* whatever the titles are.
C30_DistinctIds ==
    /\ result.op = "create_task" => (result.exc = NoExc /\ cur = snap[Len(snap)])
    /\ \A i, j \in 1..Len(snap) :
          i < j =>
              /\ snap[i] # snap[j]
              /\ DateOfId(snap[i]) = DateOfId(snap[j]) => SeqOfId(snap[i]) < SeqOfId(snap[j])
    /\ \A i \in 1..Len(snap) : is_dir(store, snap[i])

\* three tasks with equal slugs, the second on another date, the first
\* and the third taking the numbers 1000 and 1001
C30_Witness ==
    /\ Len(snap) = 3
    /\ snap[1] = <<"2024-01-01", "_", "_", "1", "0", "0", "0", "_", "_", "t">>
    /\ snap[2] = <<"2024-01-02", "_", "_", "0", "0", "1", "_", "_", "t">>
    /\ snap[3] = <<"2024-01-01", "_", "_", "1", "0", "0", "1", "_", "_", "t">>

====
